---- MODULE Spec2Model ----
(***************************************************************************)
(* A model of the AIF trading engine: the exit scan and the backtest loop  *)
(* (strategies/strategy_helper.py, strategies/backtest.py), risk control   *)
(* (strategies/trade_risk_control.py), the walk-forward splitter           *)
(* (common/ml/price_data_split.py), the multi-timeframe merge              *)
(* (data_manangement/price_data.py), order validation and the strategy     *)
(* state machine (strategies/strategy.py) and the strategy manager         *)
(* (strategies/strategy_manager.py).                                       *)
(*                                                                         *)
(* Prices are integers in thousandths (100000 stands for 100.000), the     *)
(* resolution risk control rounds to.  Relative TP/SL offsets and the      *)
(* leverage reduction are percentages.  Timestamps of a frame are the      *)
(* positive integers; 0 stands for datetime.min.                           *)
(***************************************************************************)
EXTENDS Integers, Sequences, FiniteSets, TLC

VARIABLES
    \* ---- exit scan for one entry signal (strategy_helper.py) ----
    scan_df,          \* the frame from the entry row on: a sequence of rows
    scan_type,        \* trading type of the strategy
    scan_tp,          \* TradeRiskControl.tp (percent or None)
    scan_sl,          \* TradeRiskControl.sl (percent or None)
    scan_pc,          \* "input" before the scan, "done" after it
    exit_signal,      \* the ExitSignal returned by the scan, or NoObject
    \* ---- evaluate_performance (backtest.py) ----
    bt_df,            \* the frame with the signal columns
    bt_strategy,      \* trading type and risk control of the strategy
    bt_asset,         \* price_data.asset_information: max_leverage, fees_market_order
    bt_pos,           \* position of the loop in the list of entry signals
    last_exit_idx,    \* backtest.py: last_exit_idx
    performance_detailed, \* backtest.py: performance_detailed
    trades,           \* the trades logged at backtest.py:94
    bt_result,        \* the StrategyPerformance returned, or NoObject
    \* ---- PriceDataSplit (price_data_split.py) ----
    cv,               \* the splitter: offset, folds, fold_size
    X_len,            \* the number of rows of the frame handed to split
    split_len,        \* len(X) inside split
    split_i,          \* the loop variable i of split
    split_pc,         \* "new", "running", "done" or "ValueError"
    yielded,          \* the (idx_train, idx_test) pairs yielded so far
    \* ---- PriceDataComplete (price_data.py) ----
    raw,              \* the arguments of the constructor: price_data_df, timeframe, aggregations
    price_data,       \* the view: timeframe, aggregations, _price_data; NoObject before construction
    pd_pc,            \* "raw", "built" or "ValueError"
    merged,           \* the last frame returned by get_price_data, with its convert flag
    \* ---- Strategy, OrderInformation, StrategyManager (strategy.py, strategy_manager.py) ----
    strategies,       \* the Strategy objects by identity: the fields of each
    sm,               \* the StrategyManager: all_strategies, current_strategies, exit_strategies
    outcome,          \* the last call: its name, its arguments, what it returned or raised
    \* ---- cross_validate_strategy (backtest.py) ----
    xv_X,             \* the frame with signals of the whole view, split by cv.split
    xv_pc,            \* "split", "evaluate" or "done"; "idle" outside cross-validation
    performance_per_fold_detailed, \* backtest.py: performance_per_fold_detailed
    xv_result,        \* the StrategyPerformance returned, or NoObject
    xv_fitted,        \* the index of the rows the strategy's classifier was last fitted on
    \* ---- Bot, PortfolioManager and the exchange (bot.py, portfolio_manager.py, exchange_bybit.py) ----
    bot_pc,           \* the position of _bot_job: the step ("idle", "exit", "entry") and the context's number
    pm,               \* the PortfolioManager: live_mode
    exchange,         \* the exchange: the size of the position it holds for each asset
    \* ---- calls of functions without state ----
    fn_in,            \* the arguments of the call
    fn_out            \* what the call returned or raised; NoObject before the call

vars_scan == <<scan_df, scan_type, scan_tp, scan_sl, scan_pc, exit_signal>>
vars_bt == <<bt_df, bt_strategy, bt_asset, bt_pos, last_exit_idx, performance_detailed, trades, bt_result>>
vars_split == <<cv, X_len, split_len, split_i, split_pc, yielded>>
vars_pd == <<raw, price_data, pd_pc, merged>>
vars_sm == <<strategies, sm, outcome>>
vars_xv == <<xv_X, xv_pc, performance_per_fold_detailed, xv_result, xv_fitted>>
vars_fn == <<fn_in, fn_out>>
vars_bot == <<bot_pc, pm, exchange>>
vars_more == <<vars_xv, vars_fn, vars_bot>>
vars == <<vars_scan, vars_bt, vars_split, vars_pd, vars_sm, vars_more>>

\* Python's None where a number is optional (no price is negative)
None == -1
\* a missing object (Optional[ExitSignal], Optional[StrategyPerformance], ...)
NoObject == [none |-> TRUE]
\* the outcome of a call that raises instead of returning an object
Raised(exception) == [raised |-> exception]
\* the outcome of a call that returns value
Returned(value) == [raised |-> "", value |-> value]
\* np.NAN as a win rate (a win rate is never negative)
NaN == -2
LONG == "LONG"
SHORT == "SHORT"
TradingType == {LONG, SHORT}

\* no cross-validation and no call is in progress
IdleXv ==
    /\ xv_X = <<>>
    /\ xv_pc = "idle"
    /\ performance_per_fold_detailed = <<>>
    /\ xv_result = NoObject
    /\ xv_fitted = <<>>

IdleFn == fn_in = NoObject /\ fn_out = NoObject

IdleBot == bot_pc = NoObject /\ pm = NoObject /\ exchange = NoObject

IdleMore == IdleXv /\ IdleFn /\ IdleBot

\* ------------------------------------------------------------------------
\* Bounds of the model
\* ------------------------------------------------------------------------
\* rows after the entry row in the exit-scan specification
MaxScan == 2
\* rows of the frame in the backtest specification
NBars == 4
\* rows of the frame handed to PriceDataSplit.split
MaxRows == 8
\* largest number of folds and largest fold size in the settings
MaxFolds == 3
MaxFoldSize == 2
\* the raw frame of a view starts at most MaxStart base bars after a Monday 00:00
MaxStart == 5
\* the largest number of rows of the raw frame of a view
MaxBaseRows == 52
\* the largest number of add_strategy calls on one StrategyManager
MaxAdds == 2

\* ------------------------------------------------------------------------
\* Arithmetic helpers
\* ------------------------------------------------------------------------
Min(S) == CHOOSE x \in S : \A y \in S : x <= y
Max(S) == CHOOSE x \in S : \A y \in S : x >= y
Abs(x) == IF x < 0 THEN -x ELSE x

RECURSIVE Gcd(_, _)
Gcd(a, b) == IF b = 0 THEN a ELSE Gcd(b, a % b)

\* a rational number n/d in lowest terms, d > 0
Rat(n, d) ==
    LET g == Gcd(Abs(n), Abs(d))
        s == IF d < 0 THEN -1 ELSE 1
    IN  [n |-> s * (n \div g), d |-> s * (d \div g)]

\* floor of n/d for d # 0 (math.floor of a quotient)
FloorDiv(n, d) == IF d > 0 THEN n \div d ELSE (-n) \div (-d)

\* round(x, 3) of the price n/d thousandths, n >= 0, d > 0: the nearest
\* thousandth, a tie going to the even one
Round3(n, d) ==
    LET q == n \div d
        r == n % d
    IN  IF 2 * r < d THEN q
        ELSE IF 2 * r > d THEN q + 1
        ELSE IF q % 2 = 0 THEN q ELSE q + 1

\* ------------------------------------------------------------------------
\* TradeRiskControl (trade_risk_control.py), relative (float) mode
\* ------------------------------------------------------------------------
get_tp_price(tp, close, trading_type) ==
    IF tp = None THEN None
    ELSE IF trading_type = LONG THEN Round3((100 + tp) * close, 100)
    ELSE Round3((100 - tp) * close, 100)

get_sl_price(sl, close, trading_type) ==
    IF sl = None THEN None
    ELSE IF trading_type = LONG THEN Round3((100 - sl) * close, 100)
    ELSE Round3((100 + sl) * close, 100)

\* ------------------------------------------------------------------------
\* The exit scan (strategy_helper.py)
\* ------------------------------------------------------------------------
\* df[df[EXIT_TRADE_COLUMN]].index: the timestamps of the rows with an exit signal
ExitIndices(df) == {df[i].idx : i \in {j \in DOMAIN df : df[j].Exit}}

\* the boolean series of _mark_tp_hit: only the first signal stays set
mark_tp_hit_inclusive(df, tp_price, trading_type) == IF tp_price = None \/ {j \in DOMAIN df : IF trading_type = LONG THEN df[j].High >= tp_price ELSE df[j].Low <= tp_price} = {} THEN {} ELSE {Min({df[j].idx : j \in {i \in DOMAIN df : IF trading_type = LONG THEN df[i].High >= tp_price ELSE df[i].Low <= tp_price}})}
mark_tp_hit(df, tp_price, trading_type) ==
    LET signal(row) == IF trading_type = LONG THEN row.High > tp_price
                       ELSE row.Low < tp_price
        hits == {df[i].idx : i \in {j \in DOMAIN df : signal(df[j])}}
    IN  IF tp_price = None \/ hits = {} THEN {} ELSE {Min(hits)}

\* the boolean series of _mark_sl_hit: only the first signal stays set
mark_sl_hit(df, sl_price, trading_type) ==
    LET signal(row) == IF trading_type = LONG THEN row.Low < sl_price
                       ELSE row.High > sl_price
        hits == {df[i].idx : i \in {j \in DOMAIN df : signal(df[j])}}
    IN  IF sl_price = None \/ hits = {} THEN {} ELSE {Min(hits)}

RowAt(df, idx) == df[CHOOSE i \in DOMAIN df : df[i].idx = idx]

get_exit_tp_before_sl(df_for_signal, sl_price, tp_price, trading_type) ==
    LET df == Tail(df_for_signal)
        exit_indices == ExitIndices(df)
        min_exit_idx == IF exit_indices = {} THEN None ELSE Min(exit_indices)
        sl_indices == IF sl_price = None THEN {} ELSE mark_sl_hit(df, sl_price, trading_type)
        min_sl_idx == IF sl_indices = {} THEN None ELSE Min(sl_indices)
        tp_indices == IF tp_price = None THEN {} ELSE mark_tp_hit(df, tp_price, trading_type)
        min_tp_idx == IF tp_indices = {} THEN None ELSE Min(tp_indices)
        possible_exit_indices == {min_exit_idx, min_sl_idx, min_tp_idx} \ {None}
    IN  IF possible_exit_indices = {} THEN NoObject
        ELSE LET exit_trade_index == Min(possible_exit_indices)
             IN  IF exit_trade_index = min_tp_idx
                 THEN [idx |-> exit_trade_index, exit_price |-> tp_price]
                 ELSE IF exit_trade_index = min_sl_idx
                 THEN [idx |-> exit_trade_index, exit_price |-> sl_price]
                 ELSE [idx |-> exit_trade_index,
                       exit_price |-> RowAt(df, min_exit_idx).Close]

get_exit_always_close(df_for_signal, sl_price, tp_price, trading_type) ==
    LET df == Tail(df_for_signal)
        exit_indices == ExitIndices(df)
        sl_indices == IF sl_price = None THEN {} ELSE mark_sl_hit(df, sl_price, trading_type)
        tp_indices == IF tp_price = None THEN {} ELSE mark_tp_hit(df, tp_price, trading_type)
        possible_exit_indices == exit_indices \cup sl_indices \cup tp_indices
    IN  IF possible_exit_indices = {} THEN NoObject
        ELSE [idx |-> Min(possible_exit_indices),
              exit_price |-> RowAt(df, Min(possible_exit_indices)).Close]

get_exit_including_entry_row(df_for_signal, sl_price, tp_price, trading_type) ==
    LET df == df_for_signal
        exit_indices == ExitIndices(df)
        sl_indices == IF sl_price = None THEN {} ELSE mark_sl_hit(df, sl_price, trading_type)
        tp_indices == IF tp_price = None THEN {} ELSE mark_tp_hit(df, tp_price, trading_type)
        possible_exit_indices == exit_indices \cup sl_indices \cup tp_indices
    IN  IF possible_exit_indices = {} THEN NoObject
        ELSE LET exit_trade_index == Min(possible_exit_indices)
             IN  IF exit_trade_index \in sl_indices
                 THEN [idx |-> exit_trade_index, exit_price |-> sl_price]
                 ELSE IF exit_trade_index \in tp_indices
                 THEN [idx |-> exit_trade_index, exit_price |-> tp_price]
                 ELSE [idx |-> exit_trade_index,
                       exit_price |-> RowAt(df, exit_trade_index).Close]

get_exit_for_entry_signal(df_for_signal, sl_price, tp_price, trading_type) ==
    LET df == Tail(df_for_signal)   \* the first row is the entry signal
        exit_indices == ExitIndices(df)
        min_exit_idx == IF exit_indices = {} THEN None ELSE Min(exit_indices)
        sl_indices == IF sl_price = None THEN {} ELSE mark_sl_hit(df, sl_price, trading_type)
        min_sl_idx == IF sl_indices = {} THEN None ELSE Min(sl_indices)
        tp_indices == IF tp_price = None THEN {} ELSE mark_tp_hit(df, tp_price, trading_type)
        min_tp_idx == IF tp_indices = {} THEN None ELSE Min(tp_indices)
        possible_exit_indices == {min_exit_idx, min_sl_idx, min_tp_idx} \ {None}
    IN  IF possible_exit_indices = {} THEN NoObject
        ELSE LET exit_trade_index == Min(possible_exit_indices)
             IN  IF exit_trade_index = min_sl_idx
                 THEN [idx |-> exit_trade_index, exit_price |-> sl_price]
                 ELSE IF exit_trade_index = min_tp_idx
                 THEN [idx |-> exit_trade_index, exit_price |-> tp_price]
                 ELSE [idx |-> exit_trade_index,
                       exit_price |-> RowAt(df, min_exit_idx).Close]

\* ------------------------------------------------------------------------
\* Specification SpecExit: the exit scan for one entry signal, as
\* _get_profit_for_signal (backtest.py:120-128) calls it
\* ------------------------------------------------------------------------
Row(i, high, low, close, enter, exit) ==
    [idx |-> i, High |-> high, Low |-> low, Close |-> close, Enter |-> enter, Exit |-> exit]

\* the entry row: quiet, or itself outside the TP/SL band with an exit signal
ScanEntryRows ==
    {Row(1, 100000, 100000, 100000, TRUE, FALSE), Row(1, 125000, 85000, 100000, TRUE, TRUE)}

\* a row after the entry: below, at or above the 10% stop and target levels
ScanRows(i) ==
    {Row(i, high, low, 100000 + 1000 * i, FALSE, exit) :
        high \in {105000, 110000, 125000}, low \in {85000, 90000, 95000}, exit \in BOOLEAN}

RECURSIVE ScanTails(_, _)
ScanTails(i, n) ==
    IF i > n THEN {<<>>}
    ELSE {<<r>> \o t : r \in ScanRows(i), t \in ScanTails(i + 1, n)}

ScanFrames(n) == {<<e>> \o t : e \in ScanEntryRows, t \in ScanTails(2, n)}

IdleScan ==
    /\ scan_df = <<>>
    /\ scan_type = LONG
    /\ scan_tp = None
    /\ scan_sl = None
    /\ scan_pc = "idle"
    /\ exit_signal = NoObject

InitScan ==
    /\ \E n \in 1..(MaxScan + 1) : scan_df \in ScanFrames(n)
    /\ scan_type \in TradingType
    /\ scan_tp \in {None, 10}
    /\ scan_sl \in {None, 10}
    /\ scan_pc = "input"
    /\ exit_signal = NoObject

\* backtest.py:120-128: SL and TP from the entry row, then the scan
ScanExit ==
    /\ scan_pc = "input"
    /\ LET close == scan_df[1].Close
           sl_price == get_sl_price(scan_sl, close, scan_type)
           tp_price == get_tp_price(scan_tp, close, scan_type)
       IN  exit_signal' = get_exit_for_entry_signal(scan_df, sl_price, tp_price, scan_type)
    /\ scan_pc' = "done"
    /\ UNCHANGED <<scan_df, scan_type, scan_tp, scan_sl>>

\* ------------------------------------------------------------------------
\* Leverage and profit (trade_risk_control.py, backtest.py)
\* ------------------------------------------------------------------------
\* leverage_reduction is settings.trading.leverage_reduction, in percent
get_leverage_single_floor(entry_price_planned, sl_price, trading_type, max_leverage, leverage_reduction) == IF sl_price = None THEN "ValueError" ELSE Min({max_leverage, FloorDiv((100 - leverage_reduction) * entry_price_planned, 100 * Abs(entry_price_planned - sl_price))})
get_leverage_for_prices(entry_price_planned, sl_price, trading_type, max_leverage, leverage_reduction) ==
    IF sl_price = None THEN "ValueError"
    ELSE LET leverage == IF trading_type = LONG
                         THEN FloorDiv(entry_price_planned, entry_price_planned - sl_price)
                         ELSE FloorDiv(entry_price_planned, sl_price - entry_price_planned)
             leverage_adjusted == FloorDiv((100 - leverage_reduction) * leverage, 100)
         IN  IF leverage_adjusted < max_leverage THEN leverage_adjusted ELSE max_leverage

MaxSlPct == 30

\* the calls of get_leverage_for_prices: the SL on the losing side of the entry price, or None
LeverageCalls ==
    {[op |-> "get_leverage_for_prices", entry_price_planned |-> entry, trading_type |-> tt,
      sl_price |-> IF pct = 0 THEN None ELSE IF tt = LONG THEN (entry \div 100) * (100 - pct) ELSE (entry \div 100) * (100 + pct),
      max_leverage |-> mx, leverage_reduction |-> r] :
        entry \in {100000, 1000000}, tt \in TradingType, pct \in 0..MaxSlPct,
        mx \in {5, 20, 60}, r \in {10, 50}}

InitLeverage == fn_in \in LeverageCalls /\ fn_out = NoObject

\* trade_risk_control.py:88-103
GetLeverageForPrices ==
    /\ fn_in # NoObject /\ fn_in.op = "get_leverage_for_prices"
    /\ fn_out = NoObject
    /\ fn_out' = IF fn_in.sl_price = None THEN Raised("ValueError")
                 ELSE Returned(get_leverage_for_prices(fn_in.entry_price_planned, fn_in.sl_price,
                                                       fn_in.trading_type, fn_in.max_leverage,
                                                       fn_in.leverage_reduction))
    /\ UNCHANGED fn_in

\* fees_per_trade in thousandths (1 stands for 0.001); the result is a rational
get_profit_fees_unleveraged(entry_price, exit_price, trading_type, leverage, fees_per_trade) == Rat(leverage * (IF trading_type = LONG THEN exit_price - entry_price ELSE entry_price - exit_price) * 1000 - fees_per_trade * entry_price, entry_price * 1000)
get_profit_for_trade(entry_price, exit_price, trading_type, leverage, fees_per_trade) ==
    LET profit_abs == IF trading_type = LONG THEN exit_price - entry_price
                      ELSE entry_price - exit_price
    IN  Rat(leverage * (profit_abs * 1000 - fees_per_trade * entry_price), entry_price * 1000)

RatAdd(a, b) == Rat(a.n * b.d + b.n * a.d, a.d * b.d)

RECURSIVE RatSum(_)
RatSum(seq) == IF seq = <<>> THEN Rat(0, 1) ELSE RatAdd(Head(seq), RatSum(Tail(seq)))

\* round(x, k) of the rational x, as an integer count of 10^-k (scale = 10^k)
RoundRat(x, scale) == Round3(x.n * scale, x.d)

\* the rows of df up to / from the timestamp idx (df.loc[:idx], df.loc[idx:])
Until(df, idx) == SelectSeq(df, LAMBDA row : row.idx <= idx)
Since(df, idx) == SelectSeq(df, LAMBDA row : row.idx >= idx)
Last(seq) == seq[Len(seq)]

\* _get_profit_for_signal: [p, exit_idx, ...], exit_idx = None without an exit;
\* the entry and exit prices and the leverage are kept for the trade log
get_profit_for_signal(strategy, df, idx, max_leverage, fees_per_trade) ==
    LET until == Until(df, idx)
        sl_price == get_sl_price(strategy.sl, Last(until).Close, strategy.trading_type)
        tp_price == get_tp_price(strategy.tp, Last(until).Close, strategy.trading_type)
        found == get_exit_for_entry_signal(Since(df, idx), sl_price, tp_price, strategy.trading_type)
    IN  IF found # NoObject
        THEN LET entry_price == Last(until).Close
                 leverage == get_leverage_for_prices(entry_price, sl_price, strategy.trading_type,
                                                     max_leverage, strategy.leverage_reduction)
             IN  [p |-> get_profit_for_trade(entry_price, found.exit_price, strategy.trading_type,
                                             leverage, fees_per_trade),
                  exit_idx |-> found.idx, entry_price |-> entry_price,
                  exit_price |-> found.exit_price, leverage |-> leverage]
        ELSE [p |-> Rat(0, 1), exit_idx |-> None]

\* ------------------------------------------------------------------------
\* Specification SpecBacktest: evaluate_performance (backtest.py:77-114),
\* one action per iteration of its loop over the entry signals
\* ------------------------------------------------------------------------
\* a row of the backtest frame: Close 100.000, at most one cause of an exit
\* (a Low below the 10% band, a High above it, or the exit signal)
BtRows(i) ==
    {Row(i, high, low, 100000, enter, exit) :
        high \in {105000, 125000}, low \in {85000, 95000}, enter \in BOOLEAN, exit \in BOOLEAN}

BtRowsOneCause(i) ==
    {r \in BtRows(i) : Cardinality({c \in {"low", "high", "signal"} :
                            \/ c = "low" /\ r.Low = 85000
                            \/ c = "high" /\ r.High = 125000
                            \/ c = "signal" /\ r.Exit}) <= 1}

RECURSIVE BtFrames(_, _)
BtFrames(i, n) ==
    IF i > n THEN {<<>>}
    ELSE {<<r>> \o t : r \in BtRowsOneCause(i), t \in BtFrames(i + 1, n)}

\* price_data_df[price_data_df[ENTER_TRADE_COLUMN]].index, in index order
RECURSIVE EntryIndex(_)
EntryIndex(df) ==
    IF df = <<>> THEN <<>>
    ELSE IF Head(df).Enter THEN <<Head(df).idx>> \o EntryIndex(Tail(df))
    ELSE EntryIndex(Tail(df))

IdleBt ==
    /\ bt_df = <<>>
    /\ bt_strategy = NoObject
    /\ bt_asset = NoObject
    /\ bt_pos = 0
    /\ last_exit_idx = 0
    /\ performance_detailed = <<>>
    /\ trades = <<>>
    /\ bt_result = NoObject

InitBt ==
    /\ bt_df \in BtFrames(1, NBars)
    /\ bt_strategy \in [trading_type : TradingType, tp : {None, 10}, sl : {10},
                        leverage_reduction : {10}]
    /\ bt_asset = [max_leverage |-> 20, fees_market_order |-> 1]
    /\ bt_pos = 1
    /\ last_exit_idx = 0            \* datetime.min
    /\ performance_detailed = <<>>
    /\ trades = <<>>
    /\ bt_result = NoObject

BtRunning == bt_result = NoObject /\ bt_pos \in 1..Len(EntryIndex(bt_df))
BtIdx == EntryIndex(bt_df)[bt_pos]
BtProfit == get_profit_for_signal(bt_strategy, bt_df, BtIdx, bt_asset.max_leverage,
                                  bt_asset.fees_market_order)

\* backtest.py:91-95: the signal is after the last exit and has an exit
EnterTrade ==
    /\ BtRunning
    /\ BtIdx > last_exit_idx
    /\ LET r == BtProfit
       IN  /\ r.exit_idx # None
           /\ last_exit_idx' = r.exit_idx
           /\ performance_detailed' = Append(performance_detailed, r.p)
           /\ trades' = Append(trades, [entry |-> BtIdx, exit |-> r.exit_idx,
                                        entry_price |-> r.entry_price,
                                        exit_price |-> r.exit_price,
                                        leverage |-> r.leverage, p |-> r.p])
    /\ bt_pos' = bt_pos + 1
    /\ UNCHANGED <<bt_df, bt_strategy, bt_asset, bt_result>>

\* backtest.py:86-91: the signal is after the last exit but no exit follows it
DiscardSignalRecordingZero == BtRunning /\ BtIdx > last_exit_idx /\ BtProfit.exit_idx = None /\ bt_pos' = bt_pos + 1 /\ performance_detailed' = Append(performance_detailed, BtProfit.p) /\ UNCHANGED <<bt_df, bt_strategy, bt_asset, last_exit_idx, trades, bt_result>>
DiscardSignal ==
    /\ BtRunning
    /\ BtIdx > last_exit_idx
    /\ BtProfit.exit_idx = None
    /\ bt_pos' = bt_pos + 1
    /\ UNCHANGED <<bt_df, bt_strategy, bt_asset, last_exit_idx, performance_detailed, trades, bt_result>>

\* backtest.py:96-97: the last trade is still active
SkipSignal ==
    /\ BtRunning
    /\ ~(BtIdx > last_exit_idx)
    /\ bt_pos' = bt_pos + 1
    /\ UNCHANGED <<bt_df, bt_strategy, bt_asset, last_exit_idx, performance_detailed, trades, bt_result>>

\* backtest.py:99-114: win rate in hundredths (or NaN), pps in thousandths
FinishBacktest ==
    /\ bt_result = NoObject
    /\ bt_pos = Len(EntryIndex(bt_df)) + 1
    /\ LET signals == Len(performance_detailed)
           performance == RoundRat(RatSum(performance_detailed), 100)
           profitable_signals == Cardinality({i \in DOMAIN performance_detailed :
                                                 performance_detailed[i].n > 0})
           win_rate == IF signals > 0 THEN RoundRat(Rat(profitable_signals, signals), 100) ELSE NaN
           pps == IF signals > 0 THEN RoundRat(Rat(performance, 100 * signals), 1000) ELSE 0
       IN  bt_result' = [win_rate |-> win_rate, pps |-> pps,
                         performance_detailed |-> performance_detailed]
    /\ UNCHANGED <<bt_df, bt_strategy, bt_asset, bt_pos, last_exit_idx, performance_detailed, trades>>

\* ------------------------------------------------------------------------
\* PriceDataSplit (price_data_split.py)
\* ------------------------------------------------------------------------
\* np.arange(a, b): the integers a, ..., b - 1
Arange(a, b) == [k \in 1..(IF b > a THEN b - a ELSE 0) |-> a + k - 1]

idx_train_rolling(n, i, fold_size) == Arange(n - i * fold_size - fold_size, n - i * fold_size)
idx_train_of(n, i, fold_size) == Arange(0, n - i * fold_size)

idx_test_overlapping(n, i, fold_size) ==
    Arange(n - i * fold_size, (n - i * fold_size) + fold_size + 1)
idx_test_of(n, i, fold_size) ==
    Arange(n - i * fold_size, (n - i * fold_size) + fold_size)

\* min(X.iloc[idx].index) of the debug message: defined for a non-empty idx
\* inside the frame (a negative position counts from the end)
CanTakeMin(n, idx) ==
    /\ idx # <<>>
    /\ \A k \in DOMAIN idx : idx[k] >= -n /\ idx[k] < n

\* PriceDataSplit.__init__: the settings of the evaluation section
PriceDataSplit(settings, validation_phase) ==
    IF validation_phase
    THEN [offset |-> settings.cv_folds_testing * settings.cv_fold_size_testing,
          folds |-> settings.cv_folds_validation,
          fold_size |-> settings.cv_fold_size_validation]
    ELSE [offset |-> 0,
          folds |-> settings.cv_folds_testing,
          fold_size |-> settings.cv_fold_size_testing]

IdleSplit ==
    /\ cv = NoObject
    /\ X_len = 0
    /\ split_len = 0
    /\ split_i = 0
    /\ split_pc = "idle"
    /\ yielded = <<>>

InitSplit ==
    /\ \E settings \in [cv_folds_testing : 1..MaxFolds, cv_fold_size_testing : 0..MaxFoldSize,
                        cv_folds_validation : 1..2, cv_fold_size_validation : 1..2],
          validation_phase \in BOOLEAN :
            cv = PriceDataSplit(settings, validation_phase)
    /\ X_len \in 0..MaxRows
    /\ split_len = X_len
    /\ split_i = 0
    /\ split_pc = "new"
    /\ yielded = <<>>

\* price_data_split.py:49-52: the reserved block is cut off, the loop starts
SplitStartUntrimmed == split_pc = "new" /\ split_i' = cv.folds /\ split_pc' = "running" /\ UNCHANGED <<cv, X_len, split_len, yielded>>
SplitStart ==
    /\ split_pc = "new"
    /\ split_len' = IF cv.offset > 0
                    THEN (IF split_len > cv.offset THEN split_len - cv.offset ELSE 0)
                    ELSE split_len
    /\ split_i' = cv.folds
    /\ split_pc' = "running"
    /\ UNCHANGED <<cv, X_len, yielded>>

\* price_data_split.py:53-60: one fold is built, logged and yielded
YieldFold ==
    /\ split_pc = "running"
    /\ split_i > 0
    /\ LET idx_train == idx_train_of(split_len, split_i, cv.fold_size)
           idx_test == idx_test_of(split_len, split_i, cv.fold_size)
       IN  /\ CanTakeMin(split_len, idx_train)
           /\ CanTakeMin(split_len, idx_test)
           /\ yielded' = Append(yielded, [idx_train |-> idx_train, idx_test |-> idx_test])
    /\ split_i' = split_i - 1
    /\ UNCHANGED <<cv, X_len, split_len, split_pc>>

\* price_data_split.py:57-59: min() of an empty selection raises
SplitRaise ==
    /\ split_pc = "running"
    /\ split_i > 0
    /\ LET idx_train == idx_train_of(split_len, split_i, cv.fold_size)
           idx_test == idx_test_of(split_len, split_i, cv.fold_size)
       IN  ~(CanTakeMin(split_len, idx_train) /\ CanTakeMin(split_len, idx_test))
    /\ split_pc' = "ValueError"
    /\ UNCHANGED <<cv, X_len, split_len, split_i, yielded>>

\* price_data_split.py:52: range(self.folds, 0, -1) is exhausted
SplitExhausted ==
    /\ split_pc = "running"
    /\ split_i = 0
    /\ split_pc' = "done"
    /\ UNCHANGED <<cv, X_len, split_len, split_i, yielded>>

\* ------------------------------------------------------------------------
\* cross_validate_strategy (backtest.py)
\* ------------------------------------------------------------------------
MaxXvRows == 3

\* itertools.chain(*performance_per_fold_detailed)
RECURSIVE Chain(_)
Chain(lists) == IF lists = <<>> THEN <<>> ELSE Head(lists) \o Chain(Tail(lists))

\* PriceDataMirror(price_data, idx_filter): the rows at the positions of idx_filter
Mirror(df, idx_filter) == [k \in DOMAIN idx_filter |-> df[idx_filter[k] + 1]]

\* backtest.py:57-74 with pps left at the NaN of the log line
cross_validate_metrics_nan_pps(per_fold) ==
    LET detailed == Chain(per_fold)
        signals == Len(detailed)
        performance == RoundRat(RatSum(detailed), 100)
        profitable_signals == Cardinality({i \in DOMAIN detailed : detailed[i].n > 0})
    IN  [win_rate |-> IF signals > 0 THEN RoundRat(Rat(profitable_signals, signals), 100) ELSE NaN,
         pps |-> IF signals > 0 THEN RoundRat(Rat(performance, 100 * signals), 1000) ELSE NaN,
         performance_detailed |-> [k \in DOMAIN per_fold |-> RatSum(per_fold[k])]]
\* backtest.py:57-74: the metrics over the trades of all folds
cross_validate_metrics(per_fold) ==
    LET detailed == Chain(per_fold)
        signals == Len(detailed)
        performance == RoundRat(RatSum(detailed), 100)
        profitable_signals == Cardinality({i \in DOMAIN detailed : detailed[i].n > 0})
    IN  [win_rate |-> IF signals > 0 THEN RoundRat(Rat(profitable_signals, signals), 100) ELSE NaN,
         pps |-> IF signals > 0 THEN RoundRat(Rat(performance, 100 * signals), 1000) ELSE 0,
         performance_detailed |-> [k \in DOMAIN per_fold |-> RatSum(per_fold[k])]]

\* initialize with the fitting skipped
fit_unfitted(strategy, fitted, df) == fitted
\* Strategy.initialize (strategy.py:121-141): a strategy with a classifier is fitted on
\* the rows of the view it is given (all of them: no row of the model holds a NaN that
\* dropna() would remove); a strategy without one keeps what it has
fit(strategy, fitted, df) ==
    IF strategy.classifier THEN [k \in DOMAIN df |-> df[k].idx] ELSE fitted

\* the strategy handed to cross_validate_strategy is new, or was fitted on the whole
\* view before (as the strategies that reevaluate_all_strategies hands over)
InitXv ==
    /\ xv_X \in UNION {BtFrames(1, n) : n \in 1..MaxXvRows}
    /\ xv_pc = "split"
    /\ performance_per_fold_detailed = <<>>
    /\ xv_result = NoObject
    /\ \E folds \in 1..2, fold_size \in 1..2 :
          cv = PriceDataSplit([cv_folds_testing |-> folds, cv_fold_size_testing |-> fold_size,
                               cv_folds_validation |-> 1, cv_fold_size_validation |-> 1], FALSE)
    /\ X_len = Len(xv_X)
    /\ split_len = X_len
    /\ split_i = 0
    /\ split_pc = "new"
    /\ yielded = <<>>
    /\ bt_df = <<>>
    /\ bt_strategy \in [trading_type : TradingType, tp : {None, 10}, sl : {10},
                        leverage_reduction : {10}, classifier : BOOLEAN]
    /\ xv_fitted \in {<<>>} \cup (IF bt_strategy.classifier THEN {[k \in DOMAIN xv_X |-> xv_X[k].idx]} ELSE {})
    /\ bt_asset = [max_leverage |-> 20, fees_market_order |-> 1]
    /\ bt_pos = 0
    /\ last_exit_idx = 0
    /\ performance_detailed = <<>>
    /\ trades = <<>>
    /\ bt_result = NoObject

\* backtest.py:45-54: the next fold is drawn, the strategy is initialized on its training
\* rows and evaluate_performance starts on its test rows
BeginFold ==
    /\ xv_pc = "split"
    /\ YieldFold
    /\ xv_fitted' = fit(bt_strategy, xv_fitted, Mirror(xv_X, Last(yielded').idx_train))
    /\ bt_df' = Mirror(xv_X, Last(yielded').idx_test)
    /\ bt_pos' = 1
    /\ last_exit_idx' = 0
    /\ performance_detailed' = <<>>
    /\ trades' = <<>>
    /\ bt_result' = NoObject
    /\ xv_pc' = "evaluate"
    /\ UNCHANGED <<bt_strategy, bt_asset, xv_X, performance_per_fold_detailed, xv_result>>

\* backtest.py:54: one step of evaluate_performance on the test rows
EvaluateFold ==
    /\ xv_pc = "evaluate"
    /\ EnterTrade \/ DiscardSignal \/ SkipSignal \/ FinishBacktest
    /\ UNCHANGED <<vars_split, vars_xv>>

\* backtest.py:55: the trades of the fold are appended
EndFold ==
    /\ xv_pc = "evaluate"
    /\ bt_result # NoObject
    /\ performance_per_fold_detailed' = Append(performance_per_fold_detailed, bt_result.performance_detailed)
    /\ xv_pc' = "split"
    /\ UNCHANGED <<vars_split, vars_bt, xv_X, xv_result, xv_fitted>>

\* backtest.py:45: cv.split starts, or raises and the exception leaves cross_validate_strategy
XvSplitStart == xv_pc = "split" /\ SplitStart /\ UNCHANGED <<vars_bt, vars_xv>>
XvSplitRaise ==
    /\ xv_pc = "split"
    /\ SplitRaise
    /\ xv_pc' = "ValueError"
    /\ UNCHANGED <<vars_bt, xv_X, performance_per_fold_detailed, xv_result, xv_fitted>>

\* backtest.py:57-74: the folds are exhausted and the result is returned
FinishCrossValidation ==
    /\ xv_pc = "split"
    /\ SplitExhausted
    /\ xv_result' = cross_validate_metrics(performance_per_fold_detailed)
    /\ xv_pc' = "done"
    /\ UNCHANGED <<vars_bt, xv_X, performance_per_fold_detailed, xv_fitted>>

\* ------------------------------------------------------------------------
\* Timeframes and the multi-timeframe view (definitions.py, price_data.py)
\* Timestamps of a view are hours since a Monday 00:00.
\* ------------------------------------------------------------------------
HOURLY == "HOURLY"
FOURHOURLY == "FOURHOURLY"
DAILY == "DAILY"
WEEKLY == "WEEKLY"
Timeframe == {HOURLY, FOURHOURLY, DAILY, WEEKLY}

\* the hours one bar of a timeframe spans: the resampling rule of
\* _aggregate_to_timeframe ('H', '4H', 'D', 'W')
BucketHours(tf) ==
    CASE tf = HOURLY -> 1
      [] tf = FOURHOURLY -> 4
      [] tf = DAILY -> 24
      [] tf = WEEKLY -> 168

\* the label resample() gives the bucket of timestamp t: the left edge for
\* 'H', '4H' and 'D'; the Sunday 00:00 that closes the Monday-Sunday week for 'W'
ResampleLabel(tf, t) ==
    IF tf = WEEKLY THEN (t - (t % 168)) + 144
    ELSE t - (t % BucketHours(tf))

\* price_data.py:329-332: weekly labels are moved back from Sunday to Monday
WeeklyLabelAdjust(tf) == IF tf = WEEKLY THEN -144 ELSE 0

\* price_data.py:256-261: the shift of a higher timeframe's index before merging
MergeShiftNone(tf) == 0
MergeShift(tf) ==
    CASE tf = FOURHOURLY -> 4
      [] tf = DAILY -> 24
      [] tf = WEEKLY -> 168
      [] OTHER -> 0

RECURSIVE SortedSeq(_)
SortedSeq(S) == IF S = {} THEN <<>> ELSE <<Min(S)>> \o SortedSeq(S \ {Min(S)})

RECURSIVE SeqSum(_)
SeqSum(seq) == IF seq = <<>> THEN 0 ELSE Head(seq) + SeqSum(Tail(seq))

Bar(i, open, high, low, close, volume) ==
    [idx |-> i, Open |-> open, High |-> high, Low |-> low, Close |-> close, Volume |-> volume]

\* one aggregated bar: Open first, Low min, High max, Close last, Volume sum
AggregateRows(rows, label) ==
    Bar(label, rows[1].Open,
        Max({rows[k].High : k \in DOMAIN rows}),
        Min({rows[k].Low : k \in DOMAIN rows}),
        rows[Len(rows)].Close,
        SeqSum([k \in DOMAIN rows |-> rows[k].Volume]))

\* PriceDataComplete._aggregate_to_timeframe; empty buckets are dropped by dropna()
aggregate_to_timeframe(df, tf) ==
    LET labels == SortedSeq({ResampleLabel(tf, df[k].idx) : k \in DOMAIN df})
    IN  [m \in DOMAIN labels |->
            AggregateRows(SelectSeq(df, LAMBDA row : ResampleLabel(tf, row.idx) = labels[m]),
                          labels[m] + WeeklyLabelAdjust(tf))]

\* the filter left out
FromDateKeepingAll(df, date) == df
\* df[df.index >= date]
FromDate(df, date) == SelectSeq(df, LAMBDA row : row.idx >= date)

\* PriceDataComplete.__init__: the view, or "ValueError" when min() meets an
\* empty index (an empty frame, or an aggregation with no bar left)
PriceDataComplete(price_data_df, timeframe, aggregations) ==
    LET agg0 == [tf \in aggregations |-> aggregate_to_timeframe(price_data_df, tf)]
    IN  IF aggregations = {}
        THEN [timeframe |-> timeframe, aggregations |-> aggregations,
              data |-> [tf \in {timeframe} |-> price_data_df]]
        ELSE IF price_data_df = <<>> THEN Raised("ValueError")
        ELSE LET starting_date == price_data_df[1].idx
                 agg1 == [tf \in aggregations |-> FromDate(agg0[tf], starting_date)]
             IN  IF \E tf \in aggregations : agg1[tf] = <<>> THEN Raised("ValueError")
                 ELSE LET max_starting_date == Max({agg1[tf][1].idx : tf \in aggregations})
                      IN  [timeframe |-> timeframe, aggregations |-> aggregations,
                           data |-> [tf \in aggregations \cup {timeframe} |->
                                       IF tf = timeframe
                                       THEN FromDate(price_data_df, max_starting_date)
                                       ELSE FromDate(agg1[tf], max_starting_date)]]

\* _convert_to_relative: (value - Close) / Close
convert_to_relative(value, close) == Rat(value - close, close)

\* PriceDataTimeframe.get_price_data_df with drop_close_volume_column=False,
\* for a series without indicator columns: a converted copy of the stored rows
get_price_data_df(df, convert_ohl) ==
    IF convert_ohl
    THEN [k \in DOMAIN df |->
            [df[k] EXCEPT !.Open = convert_to_relative(df[k].Open, df[k].Close),
                          !.High = convert_to_relative(df[k].High, df[k].Close),
                          !.Low = convert_to_relative(df[k].Low, df[k].Close)]]
    ELSE df

\* the row of a shifted higher-timeframe frame that the left merge puts on
\* timestamp t, or NoObject (a row of NaN) when there is none
MergedAt(tf_df, shift, t) ==
    LET hit == SelectSeq(tf_df, LAMBDA row : row.idx + shift = t)
    IN  IF hit = <<>> THEN NoObject ELSE hit[1]

\* ffill(): the last row at or before position k that is not NaN
RECURSIVE Ffill(_, _)
Ffill(col, k) ==
    IF k = 0 THEN NoObject
    ELSE IF col[k] # NoObject THEN col[k]
    ELSE Ffill(col, k - 1)

\* step c) and the final drops for the columns of one higher timeframe
MergedColumns(cell, close, convert) ==
    IF cell = NoObject THEN NoObject
    ELSE IF convert
    THEN [Open |-> cell.Open, High |-> cell.High, Low |-> cell.Low,
          Close |-> convert_to_relative(cell.Close, close)]
    ELSE [Open |-> cell.Open, High |-> cell.High, Low |-> cell.Low,
          Close |-> cell.Close, Volume |-> cell.Volume]

\* PriceDataComplete.get_price_data for a view without indicators
get_price_data(view, convert) ==
    LET stored == view.data[view.timeframe]
        base == get_price_data_df(stored, convert)
        others == DOMAIN view.data \ {view.timeframe}
        col == [tf \in others |->
                  LET tf_df == get_price_data_df(view.data[tf], convert)
                  IN  [k \in DOMAIN base |-> MergedAt(tf_df, MergeShift(tf), base[k].idx)]]
    IN  [k \in DOMAIN base |->
            LET own == IF convert
                       THEN [idx |-> base[k].idx, Open |-> base[k].Open,
                             High |-> base[k].High, Low |-> base[k].Low]
                       ELSE base[k]
            IN  [own |-> own,
                 tf |-> [tf \in others |->
                            MergedColumns(Ffill(col[tf], k), stored[k].Close, convert)]]]

\* price_data.py:107: the stored frame of a timeframe after get_price_data_df,
\* whose in-place conversions and drops work on price_data_df.copy()
stored_after_in_place(df, convert_ohl) == IF convert_ohl THEN [k \in DOMAIN df |-> [df[k] EXCEPT !.Open = @ - df[k].Close, !.High = @ - df[k].Close, !.Low = @ - df[k].Close]] ELSE df
stored_after_get_price_data_df(df, convert_ohl) == df

\* the view after get_price_data(convert), which calls get_price_data_df of
\* every timeframe with convert_ohl=convert
after_get_price_data(view, convert) ==
    [view EXCEPT !.data = [tf \in DOMAIN view.data |->
                              stored_after_get_price_data_df(view.data[tf], convert)]]

\* PriceDataMirror(price_data, idx_filter): its two frames and the view after
\* the two get_price_data calls
PriceDataMirror(view, idx_filter) ==
    LET view_1 == after_get_price_data(view, FALSE)
        view_2 == after_get_price_data(view_1, TRUE)
    IN  [price_data_df_unconverted |-> Mirror(get_price_data(view, FALSE), idx_filter),
         price_data_df_converted |-> Mirror(get_price_data(view_1, TRUE), idx_filter),
         view |-> view_2]

\* ---- the lookback window of a view ----
\* Timeframe.convert(from_timeframe, to_timeframe) along HOURLY -> FOURHOURLY -> DAILY -> WEEKLY
RECURSIVE Timeframe_convert(_, _)
Timeframe_convert(from_timeframe, to_timeframe) ==
    IF from_timeframe = to_timeframe THEN Returned(1)
    ELSE IF from_timeframe = WEEKLY THEN Raised("ValueError")
    ELSE LET step == CASE from_timeframe = HOURLY -> <<FOURHOURLY, 4>>
                       [] from_timeframe = FOURHOURLY -> <<DAILY, 6>>
                       [] from_timeframe = DAILY -> <<WEEKLY, 7>>
             rest == Timeframe_convert(step[1], to_timeframe)
         IN  IF rest.raised # "" THEN rest ELSE Returned(step[2] * rest.value)

\* PriceDataTimeframe.update_max_window
update_max_window(max_window, window) == Max({max_window, window})

\* PriceDataComplete.get_lookback_window for a view with the higher timeframes of max_window
get_lookback_window_unadjusted(timeframe, max_window) == 1 + Max({0} \cup {Timeframe_convert(timeframe, tf).value * max_window[tf] : tf \in DOMAIN max_window})
get_lookback_window(timeframe, max_window) ==
    LET adjustment_factor(tf) == IF tf # timeframe /\ max_window[tf] > 0 THEN 1 ELSE 0
    IN  1 + Max({0} \cup {Timeframe_convert(timeframe, tf).value * (max_window[tf] + adjustment_factor(tf)) :
                             tf \in DOMAIN max_window})

\* the windows of the indicators registered
Windows == {1, 3, 30, 60}

\* a view just constructed: max_window is 0 on each of its timeframes
InitLookback ==
    /\ \E timeframe \in {HOURLY, DAILY} :
          \E aggregations \in SUBSET {tf \in Timeframe : BucketHours(tf) > BucketHours(timeframe)} :
             fn_in = [op |-> "get_lookback_window", timeframe |-> timeframe,
                      max_window |-> [tf \in aggregations \cup {timeframe} |-> 0]]
    /\ fn_out = NoObject

\* price_data.get_price_data_for_timeframe(tf).update_max_window(window)
UpdateMaxWindow ==
    /\ fn_in # NoObject /\ fn_in.op = "get_lookback_window"
    /\ \E tf \in DOMAIN fn_in.max_window, window \in Windows :
          fn_in' = [fn_in EXCEPT !.max_window[tf] = update_max_window(@, window)]
    /\ fn_out' = NoObject

\* price_data.get_lookback_window()
GetLookbackWindow ==
    /\ fn_in # NoObject /\ fn_in.op = "get_lookback_window"
    /\ fn_out' = Returned(get_lookback_window(fn_in.timeframe, fn_in.max_window))
    /\ UNCHANGED fn_in

\* ---- the inputs of the view ----
\* closing price of the base bar that opens at hour t: a zig-zag, different for
\* every t below 2000
ClosePrice(t) == 100000 + 2000 * ((7 * t) % 11) + t
BarAt(t) ==
    Bar(t, ClosePrice(t) - 50, ClosePrice(t) + 100, ClosePrice(t) - 100, ClosePrice(t), 1 + (t % 3))
BaseFrame(tf, start, n) == [k \in 1..n |-> BarAt((start + k - 1) * BucketHours(tf))]
AggregationsOf(tf) ==
    IF tf = HOURLY THEN SUBSET {FOURHOURLY, DAILY} ELSE SUBSET {WEEKLY}

IdlePd ==
    /\ raw = NoObject
    /\ price_data = NoObject
    /\ pd_pc = "idle"
    /\ merged = NoObject

InitPd ==
    /\ \E tf \in {HOURLY, DAILY}, start \in 0..MaxStart,
          n \in {1} \cup ((MaxBaseRows - 3)..MaxBaseRows) :
          \E aggregations \in AggregationsOf(tf) :
             raw = [price_data_df |-> BaseFrame(tf, start, n), timeframe |-> tf,
                    aggregations |-> aggregations]
    /\ price_data = NoObject
    /\ pd_pc = "raw"
    /\ merged = NoObject

\* the largest number of rows of a raw frame that may miss a bar
MaxGapRows == 12

\* a frame as update_historical_data stores it (data_provider.py:88-100): it removes the
\* bars with Open = 0 and accepts a history that misses up to 0.5% of its bars, so that a
\* bar inside the frame may be missing; gap = 0 leaves the frame whole
WithoutRow(df, gap) == [k \in 1..(Len(df) - (IF gap \in DOMAIN df THEN 1 ELSE 0)) |-> IF gap \in DOMAIN df /\ k >= gap THEN df[k + 1] ELSE df[k]]

InitPdGaps ==
    /\ \E tf \in {HOURLY, DAILY}, start \in 0..MaxStart, n \in (MaxGapRows - 3)..MaxGapRows :
          \E aggregations \in AggregationsOf(tf), gap \in {0} \cup (2..(n - 1)) :
             raw = [price_data_df |-> WithoutRow(BaseFrame(tf, start, n), gap), timeframe |-> tf,
                    aggregations |-> aggregations]
    /\ price_data = NoObject
    /\ pd_pc = "raw"
    /\ merged = NoObject

\* PriceDataComplete(price_data_df, asset, timeframe, aggregations)
Construct ==
    /\ pd_pc = "raw"
    /\ LET view == PriceDataComplete(raw.price_data_df, raw.timeframe, raw.aggregations)
       IN  IF view = Raised("ValueError")
           THEN pd_pc' = "ValueError" /\ UNCHANGED price_data
           ELSE pd_pc' = "built" /\ price_data' = view
    /\ UNCHANGED <<raw, merged>>

\* price_data.get_price_data(convert)
GetPriceData ==
    /\ pd_pc = "built"
    /\ \E convert \in BOOLEAN :
          /\ merged' = [op |-> "get_price_data", convert |-> convert,
                        df |-> get_price_data(price_data, convert)]
          /\ price_data' = after_get_price_data(price_data, convert)
    /\ UNCHANGED <<raw, pd_pc>>

\* price_data.get_price_data_for_timeframe(tf).get_price_data_df(convert_ohl, drop_close_volume_column=False)
GetPriceDataDf ==
    /\ pd_pc = "built"
    /\ \E tf \in DOMAIN price_data.data, convert_ohl \in BOOLEAN :
          /\ merged' = [op |-> "get_price_data_df", convert |-> convert_ohl, timeframe |-> tf,
                        df |-> get_price_data_df(price_data.data[tf], convert_ohl)]
          /\ price_data' = [price_data EXCEPT !.data[tf] =
                                stored_after_get_price_data_df(@, convert_ohl)]
    /\ UNCHANGED <<raw, pd_pc>>

\* PriceDataMirror(price_data, idx_filter) with the train or the test rows of a one-row test fold
BuildMirror ==
    /\ pd_pc = "built"
    /\ LET n == Len(price_data.data[price_data.timeframe])
       IN  \E idx_filter \in {Arange(0, n - 1), Arange(n - 1, n)} :
              LET mirror == PriceDataMirror(price_data, idx_filter)
              IN  /\ merged' = [op |-> "PriceDataMirror", idx_filter |-> idx_filter,
                                price_data_df_unconverted |-> mirror.price_data_df_unconverted,
                                price_data_df_converted |-> mirror.price_data_df_converted]
                  /\ price_data' = mirror.view
    /\ UNCHANGED <<raw, pd_pc>>

\* ------------------------------------------------------------------------
\* Strategy and OrderInformation (strategy.py)
\* A view handed to a strategy is reduced to what the strategy reads of it:
\* its context (asset, timeframe), the Close of its latest row, and the
\* strategies whose entry rule (fires) and exit rule (exits) hold on that row.
\* Win rates and PPS are percents.
\* ------------------------------------------------------------------------
Contexts == {<<"BTCUSD", HOURLY>>, <<"BTCUSD", DAILY>>, <<"ETHUSD", HOURLY>>}

\* settings.trading and settings.strategies
leverage_reduction == 10
default_max_leverage == 20
threshold_strategy_winrate == 50
threshold_strategy_pps == 50
allowed_negative_folds == 1

\* Strategy.__init__ for the strategies of the model: name, direction, exit
\* rule (None or a rule) and the TP/SL percents of the risk control
Strategy(name) ==
    LET fixed == CASE name = "long_tpsl" -> [trading_type |-> LONG, exit_signal |-> None, tp |-> 10, sl |-> 10]
                   [] name = "short_exit" -> [trading_type |-> SHORT, exit_signal |-> 1, tp |-> None, sl |-> 10]
                   [] name = "long_no_sl" -> [trading_type |-> LONG, exit_signal |-> None, tp |-> 10, sl |-> None]
                   [] name = "long_no_exit" -> [trading_type |-> LONG, exit_signal |-> None, tp |-> None, sl |-> 10]
    IN  [name |-> name, trading_type |-> fixed.trading_type, exit_signal |-> fixed.exit_signal,
         tp |-> fixed.tp, sl |-> fixed.sl,
         init_for_context |-> NoObject, max_leverage |-> None, strategy_performance |-> NoObject]

\* a < b of two floats: False when either is NaN
Lt(a, b) == a # NaN /\ b # NaN /\ a < b

\* OrderInformation._validate_leverage; lvg_by_sl = entry / distance, compared
\* exactly with 0.99 * leverage
validate_leverage(trading_type, entering_price_planned, leverage, sl_price) ==
    IF sl_price = None THEN Returned(TRUE)
    ELSE LET distance == IF trading_type = LONG THEN entering_price_planned - sl_price
                         ELSE sl_price - entering_price_planned
         IN  IF distance = 0 THEN Raised("ZeroDivisionError")
             ELSE IF distance < 0 THEN Returned(FALSE)
             ELSE Returned(~(100 * entering_price_planned < 99 * leverage * distance))

\* OrderInformation(...) with its __post_init__
OrderInformation(from_strategy, asset, trading_type, pps, entering_price_planned, leverage, tp_price, sl_price) ==
    LET valid == validate_leverage(trading_type, entering_price_planned, leverage, sl_price)
    IN  IF tp_price = None /\ from_strategy.exit_signal = None THEN Raised("ValueError")
        ELSE IF valid.raised # "" THEN valid
        ELSE IF ~valid.value THEN Raised("ValueError")
        ELSE Returned([from_strategy |-> from_strategy.name, asset |-> asset,
                       trading_type |-> trading_type, pps |-> pps,
                       entering_price_planned |-> entering_price_planned,
                       leverage |-> leverage, tp_price |-> tp_price, sl_price |-> sl_price])

\* Strategy.initialize
initialize(strategy, view, max_leverage) ==
    [strategy EXCEPT !.init_for_context = view.context, !.max_leverage = max_leverage]

\* Strategy._get_data_with_signals: the signals of the latest row
get_data_with_signals_unchecked(strategy, view) ==
    Returned([Enter |-> strategy.name \in view.fires,
              Exit |-> strategy.exit_signal # None /\ strategy.name \in view.exits])
get_data_with_signals(strategy, view) ==
    IF strategy.init_for_context = NoObject THEN Raised("RuntimeError")
    ELSE IF strategy.init_for_context # view.context THEN Raised("RuntimeError")
    ELSE Returned([Enter |-> strategy.name \in view.fires,
                   Exit |-> strategy.exit_signal # None /\ strategy.name \in view.exits])

\* Strategy.apply_entry_strategy
apply_entry_strategy(strategy, view) ==
    LET price_data_df == get_data_with_signals(strategy, view)
    IN  IF price_data_df.raised # "" THEN price_data_df
        ELSE IF ~price_data_df.value.Enter THEN Returned(NoObject)
        ELSE LET entering_price_planned == view.Close
                 tp_price == get_tp_price(strategy.tp, entering_price_planned, strategy.trading_type)
                 sl_price == get_sl_price(strategy.sl, entering_price_planned, strategy.trading_type)
             IN  IF sl_price = None THEN Raised("ValueError")
                 ELSE IF strategy.strategy_performance = NoObject THEN Raised("AttributeError")
                 ELSE OrderInformation(strategy, view.context[1], strategy.trading_type,
                                       strategy.strategy_performance.pps, entering_price_planned,
                                       get_leverage_for_prices(entering_price_planned, sl_price,
                                                               strategy.trading_type,
                                                               strategy.max_leverage,
                                                               leverage_reduction),
                                       tp_price, sl_price)

\* Strategy.apply_exit_strategy
apply_exit_strategy(strategy, view) ==
    LET price_data_df == get_data_with_signals(strategy, view)
    IN  IF price_data_df.raised # "" THEN price_data_df
        ELSE Returned(price_data_df.value.Exit)

\* Strategy.set_performance
set_performance(strategy, strategy_performance) ==
    [strategy EXCEPT !.strategy_performance = strategy_performance]

\* ------------------------------------------------------------------------
\* StrategyManager (strategy_manager.py)
\* A dict is a function whose domain is its set of keys; a manager's lists
\* and its exit_strategies hold the names that identify the Strategy objects.
\* Every operation returns the manager and the objects as it leaves them,
\* with what it returned or raised.
\* ------------------------------------------------------------------------
\* StrategyManager.__init__
StrategyManager == [current_strategies |-> <<>>, all_strategies |-> <<>>, exit_strategies |-> <<>>]

\* d[key].append(item), after d[key] = [] for a missing key
DictAppend(d, key, item) ==
    IF key \in DOMAIN d THEN [d EXCEPT ![key] = Append(@, item)] ELSE d @@ (key :> <<item>>)

\* d.pop(key)
DictPop(d, key) == [k \in DOMAIN d \ {key} |-> d[k]]

\* settings.strategies as a record, for the calls made under other settings
Settings(winrate, pps, negative_folds) ==
    [threshold_strategy_winrate |-> winrate, threshold_strategy_pps |-> pps,
     allowed_negative_folds |-> negative_folds]

\* strategy_manager.py:134-137 with the win rate required to reach the threshold
rejected_unless_reached(performance, settings) == \/ ~Lt(settings.threshold_strategy_winrate - 1, performance.win_rate) \/ Lt(performance.pps, settings.threshold_strategy_pps) \/ Cardinality({k \in DOMAIN performance.performance_detailed : performance.performance_detailed[k] < 0}) > settings.allowed_negative_folds
\* strategy_manager.py:134-137: the rejection test of _add_entry_strategy under the
\* settings given
rejected_under(performance, settings) ==
    \/ Lt(performance.win_rate, settings.threshold_strategy_winrate)
    \/ Lt(performance.pps, settings.threshold_strategy_pps)
    \/ Cardinality({k \in DOMAIN performance.performance_detailed :
                        performance.performance_detailed[k] < 0}) > settings.allowed_negative_folds

\* strategy_manager.py:134-137: the rejection test of _add_entry_strategy
rejected_on_threshold(performance) ==
    \/ ~Lt(threshold_strategy_winrate, performance.win_rate) /\ performance.win_rate # NaN
    \/ ~Lt(threshold_strategy_pps, performance.pps) /\ performance.pps # NaN
    \/ Cardinality({k \in DOMAIN performance.performance_detailed :
                        performance.performance_detailed[k] < 0}) > allowed_negative_folds
rejected(performance) ==
    \/ Lt(performance.win_rate, threshold_strategy_winrate)
    \/ Lt(performance.pps, threshold_strategy_pps)
    \/ Cardinality({k \in DOMAIN performance.performance_detailed :
                        performance.performance_detailed[k] < 0}) > allowed_negative_folds

\* StrategyManager._add_entry_strategy with the performance it is given or
\* that cross_validate_strategy returns
add_entry_strategy(mgr, objects, name, view, performance) ==
    LET strategy == set_performance(initialize(objects[name], view, default_max_leverage),
                                    performance)
        heap == [objects EXCEPT ![name] = strategy]
    IN  IF rejected(strategy.strategy_performance)
        THEN [sm |-> mgr, strategies |-> heap, result |-> Returned(FALSE)]
        ELSE [sm |-> [mgr EXCEPT !.current_strategies = DictAppend(@, view.context, name)],
              strategies |-> heap, result |-> Returned(TRUE)]

\* StrategyManager.add_strategy under the settings given
add_strategy_under(mgr, objects, name, view, performance, settings) ==
    LET strategy == set_performance(initialize(objects[name], view, default_max_leverage),
                                    performance)
        heap == [objects EXCEPT ![name] = strategy]
        registered == [mgr EXCEPT !.all_strategies = DictAppend(@, view.context, name)]
    IN  IF rejected_under(strategy.strategy_performance, settings)
        THEN [sm |-> registered, strategies |-> heap, result |-> Returned(FALSE)]
        ELSE [sm |-> [registered EXCEPT !.current_strategies = DictAppend(@, view.context, name)],
              strategies |-> heap, result |-> Returned(TRUE)]

\* StrategyManager.add_strategy
add_strategy(mgr, objects, name, view, performance) ==
    add_entry_strategy([mgr EXCEPT !.all_strategies = DictAppend(@, view.context, name)],
                       objects, name, view, performance)

\* strategy_manager.py:45-46: _add_entry_strategy for each registered strategy,
\* fresh[name] being what cross_validate_strategy returns for it on the view
RECURSIVE reevaluate_loop(_, _, _, _, _)
reevaluate_loop(mgr, objects, names, view, fresh) ==
    IF names = <<>> THEN [sm |-> mgr, strategies |-> objects, result |-> Returned(NoObject)]
    ELSE LET r == add_entry_strategy(mgr, objects, Head(names), view, fresh[Head(names)])
         IN  reevaluate_loop(r.sm, r.strategies, Tail(names), view, fresh)

\* StrategyManager.reevaluate_all_strategies
reevaluate_without_reset(mgr, objects, view, fresh) == IF view.context \notin DOMAIN mgr.all_strategies THEN [sm |-> mgr, strategies |-> objects, result |-> Raised("KeyError")] ELSE reevaluate_loop(mgr, objects, mgr.all_strategies[view.context], view, fresh)
reevaluate_all_strategies(mgr, objects, view, fresh) ==
    LET reset == [mgr EXCEPT !.current_strategies = (view.context :> <<>>) @@ @]
    IN  IF view.context \notin DOMAIN mgr.all_strategies
        THEN [sm |-> reset, strategies |-> objects, result |-> Raised("KeyError")]
        ELSE reevaluate_loop(reset, objects, mgr.all_strategies[view.context], view, fresh)

\* StrategyManager.add_exit_strategy
add_exit_strategy_overwriting(mgr, strategy) ==
    IF strategy.init_for_context = NoObject
    THEN [sm |-> mgr, result |-> Raised("AttributeError")]
    ELSE [sm |-> [mgr EXCEPT !.exit_strategies =
                      DictPop(@, strategy.init_for_context)
                          @@ (strategy.init_for_context :> strategy.name)],
          result |-> Returned(NoObject)]
add_exit_strategy(mgr, strategy) ==
    IF strategy.init_for_context = NoObject
    THEN [sm |-> mgr, result |-> Raised("AttributeError")]
    ELSE IF strategy.init_for_context \in DOMAIN mgr.exit_strategies
    THEN [sm |-> mgr, result |-> Raised("RuntimeError")]
    ELSE [sm |-> [mgr EXCEPT !.exit_strategies = @ @@ (strategy.init_for_context :> strategy.name)],
          result |-> Returned(NoObject)]

\* StrategyManager.remove_exit_strategy
remove_exit_strategy(mgr, asset, timeframe) ==
    IF <<asset, timeframe>> \in DOMAIN mgr.exit_strategies
    THEN [sm |-> [mgr EXCEPT !.exit_strategies = DictPop(@, <<asset, timeframe>>)],
          result |-> Returned(NoObject)]
    ELSE [sm |-> mgr, result |-> Returned(NoObject)]

\* strategy_manager.py:101: does order_information replace best_order
replaces_on_equal(best_order, order_information) ==
    order_information # NoObject
        /\ (best_order = NoObject \/ ~Lt(order_information.pps, best_order.pps))
replaces(best_order, order_information) ==
    order_information # NoObject
        /\ (best_order = NoObject \/ Lt(best_order.pps, order_information.pps))

\* the loop of StrategyManager.apply from position k on
RECURSIVE apply_loop(_, _, _, _, _)
apply_loop(list, k, best_order, objects, view) ==
    IF k > Len(list) THEN Returned(best_order)
    ELSE LET order_information == apply_entry_strategy(objects[list[k]], view)
         IN  IF order_information.raised # "" THEN order_information
             ELSE apply_loop(list, k + 1,
                             IF replaces(best_order, order_information.value)
                             THEN order_information.value ELSE best_order,
                             objects, view)

\* StrategyManager.apply
apply(mgr, objects, view) ==
    IF view.context \notin DOMAIN mgr.current_strategies THEN Returned(NoObject)
    ELSE apply_loop(mgr.current_strategies[view.context], 1, NoObject, objects, view)

\* ---- the calls on strategies, orders and the manager ----
Call(op, name, view, args, result) ==
    [op |-> op, strategy |-> name, view |-> view, args |-> args, result |-> result]

\* the views of the model: latest Close among closes, entry rules firing
\* among fire_names, exit rules firing among exit_names
Views(contexts, closes, fire_names, exit_names) ==
    [context : contexts, Close : closes, fires : SUBSET fire_names, exits : SUBSET exit_names]

StrategyPerformance(win_rate, pps, detailed) ==
    [win_rate |-> win_rate, pps |-> pps, performance_detailed |-> detailed]

\* the performances a caller or the cross validation hands to add_strategy
Performances ==
    {StrategyPerformance(60, 70, <<1, 1>>), StrategyPerformance(50, 50, <<-1, 1>>),
     StrategyPerformance(NaN, 90, <<1, 1>>), StrategyPerformance(49, 90, <<1, 1>>),
     StrategyPerformance(60, 49, <<1, 1>>), StrategyPerformance(60, 70, <<-1, -1>>)}

IdleSm ==
    /\ strategies = <<>>
    /\ sm = NoObject
    /\ outcome = NoObject

\* a fresh manager and freshly constructed strategies
InitSm(names) ==
    /\ strategies = [name \in names |-> Strategy(name)]
    /\ sm = StrategyManager
    /\ outcome = Call("new", "", NoObject, NoObject, Returned(NoObject))

\* strategy.initialize(view, max_leverage)
Initialize ==
    \E name \in DOMAIN strategies, view \in Views(Contexts, {100000}, {}, {}) :
        /\ strategies' = [strategies EXCEPT ![name] = initialize(@, view, default_max_leverage)]
        /\ outcome' = Call("initialize", name, view, NoObject, Returned(NoObject))
        /\ UNCHANGED sm

\* strategy.set_performance(StrategyPerformance(1.0, 1.0, []))
SetPerformance ==
    \E name \in DOMAIN strategies :
        /\ strategies' = [strategies EXCEPT
                             ![name] = set_performance(@, StrategyPerformance(100, 100, <<>>))]
        /\ outcome' = Call("set_performance", name, NoObject, NoObject, Returned(NoObject))
        /\ UNCHANGED sm

\* strategy._get_data_with_signals(view)
GetDataWithSignals ==
    \E name \in DOMAIN strategies : \E view \in Views(Contexts, {100000}, {name}, {name}) :
        /\ outcome' = Call("_get_data_with_signals", name, view, NoObject,
                           get_data_with_signals(strategies[name], view))
        /\ UNCHANGED <<strategies, sm>>

\* strategy.apply_entry_strategy(view)
ApplyEntryStrategy ==
    \E name \in DOMAIN strategies : \E view \in Views(Contexts, {100000, 33333}, {name}, {}) :
        /\ outcome' = Call("apply_entry_strategy", name, view, NoObject,
                           apply_entry_strategy(strategies[name], view))
        /\ UNCHANGED <<strategies, sm>>

\* strategy.apply_exit_strategy(view)
ApplyExitStrategy ==
    \E name \in DOMAIN strategies : \E view \in Views(Contexts, {100000}, {}, {name}) :
        /\ outcome' = Call("apply_exit_strategy", name, view, NoObject,
                           apply_exit_strategy(strategies[name], view))
        /\ UNCHANGED <<strategies, sm>>

\* the arguments of the orders constructed: entry 100.000 with stops around
\* it, and the orders of test__validate_order (entry 1000, SL 900)
OrderArguments ==
    {[entering_price_planned |-> 100000, trading_type |-> tt, leverage |-> leverage,
      tp_price |-> IF tp = None THEN None ELSE IF tt = SHORT THEN 90000 ELSE 110000,
      sl_price |-> sl] :
        tt \in TradingType, leverage \in {10, 100, 101, 102}, tp \in {None, 1},
        sl \in {None, 90000, 99000, 100000, 101000}}
    \cup {[entering_price_planned |-> 1000000, trading_type |-> LONG, leverage |-> leverage,
            tp_price |-> tp, sl_price |-> 900000] : leverage \in {10, 20}, tp \in {None, 1100000}}

\* OrderInformation(from_strategy, asset, trading_type, pps, entering_price_planned,
\* leverage, tp_price, sl_price) by a caller of its own
ConstructOrder ==
    \E name \in DOMAIN strategies, args \in OrderArguments :
        /\ outcome' = Call("OrderInformation", name, NoObject, args,
                           OrderInformation(strategies[name], "BTCUSD", args.trading_type, 100,
                                            args.entering_price_planned, args.leverage,
                                            args.tp_price, args.sl_price))
        /\ UNCHANGED <<strategies, sm>>

\* ---- apply_entry_strategy on the rows of a view ----
\* the number of rows of the views whose rows are modelled
MaxViewRows == 2

\* a row of get_price_data(convert=False): its Close, whether one of its columns is
\* NaN, and whether the entry rule holds of its values
ViewRows == [Close : {100000, 101000}, nan : BOOLEAN, Enter : BOOLEAN]
ViewFrames == UNION {[1..n -> ViewRows] : n \in 1..MaxViewRows}

\* DataFrame.dropna()
dropna(df) == SelectSeq(df, LAMBDA row : ~row.nan)

\* what the strategy reads of a view with the rows df: strategy.py:160 reads the
\* signal on the last row of _get_data_with_signals' frame, which is
\* get_price_data(convert=False).dropna() (strategy.py:220-224); strategy.py:165-170
\* read the Close and the TP/SL on the last row of get_price_data(convert=False)
ViewOfRows(name, context, df) ==
    [context |-> context, Close |-> Last(df).Close,
     fires |-> IF Last(dropna(df)).Enter THEN {name} ELSE {}, exits |-> {}]

\* Strategy.apply_entry_strategy on a view with the rows df; iloc[-1] of an empty
\* frame raises IndexError
apply_entry_strategy_rows(strategy, context, df) ==
    IF strategy.init_for_context = NoObject \/ strategy.init_for_context # context
    THEN Raised("RuntimeError")
    ELSE IF dropna(df) = <<>> THEN Raised("IndexError")
    ELSE apply_entry_strategy(strategy, ViewOfRows(strategy.name, context, df))

\* strategies initialised for a context, with a performance
InitRows ==
    /\ strategies = [name \in {"short_exit", "long_tpsl"} |->
                         set_performance(initialize(Strategy(name),
                                                    [context |-> <<"BTCUSD", HOURLY>>],
                                                    default_max_leverage),
                                         StrategyPerformance(60, 70, <<1, 1>>))]
    /\ sm = StrategyManager
    /\ outcome = Call("new", "", NoObject, NoObject, Returned(NoObject))

\* strategy.apply_entry_strategy(view)
ApplyEntryStrategyRows ==
    \E name \in DOMAIN strategies, df \in ViewFrames :
        /\ outcome' = Call("apply_entry_strategy", name, NoObject, df,
                           apply_entry_strategy_rows(strategies[name], <<"BTCUSD", HOURLY>>, df))
        /\ UNCHANGED <<strategies, sm>>

\* sm.add_strategy(strategy, view, strategy_performance)
AddStrategy ==
    /\ Cardinality(UNION {{<<c, k>> : k \in DOMAIN sm.all_strategies[c]} :
                              c \in DOMAIN sm.all_strategies}) < MaxAdds
    /\ \E name \in DOMAIN strategies, view \in Views(Contexts, {100000}, {}, {}),
          performance \in Performances :
          LET r == add_strategy(sm, strategies, name, view, performance)
          IN  /\ sm' = r.sm
              /\ strategies' = r.strategies
              /\ outcome' = Call("add_strategy", name, view, performance, r.result)

\* what cross_validate_strategy returns for a strategy in the manager's calls
FreshPerformances ==
    {StrategyPerformance(60, 70, <<-1, 1>>), StrategyPerformance(NaN, 0, <<>>),
     StrategyPerformance(60, 70, <<-1, -1>>)}

\* the contexts the bot re-evaluates
FreshContexts == {<<"BTCUSD", HOURLY>>, <<"ETHUSD", HOURLY>>}

\* what cross_validate_strategy returns when no fold recorded a trade: win rate NaN,
\* PPS 0.0 and a sum of 0 for every fold
ZeroTradePerformances == {StrategyPerformance(NaN, 0, [k \in 1..n |-> 0]) : n \in 0..MaxFolds}

\* the values of settings.strategies the calls are made under
SettingsOfCalls ==
    {Settings(winrate, pps, negative_folds) :
        winrate \in {0, 50, 101}, pps \in {-10, 0, 10}, negative_folds \in {0, 1}}

\* sm.add_strategy(strategy, view), cross validated, under settings of the caller's
AddStrategyUnderSettings ==
    /\ Cardinality(UNION {{<<c, k>> : k \in DOMAIN sm.all_strategies[c]} :
                              c \in DOMAIN sm.all_strategies}) < MaxAdds
    /\ \E name \in DOMAIN strategies, view \in Views(FreshContexts, {100000}, {}, {}),
          performance \in ZeroTradePerformances \cup FreshPerformances, settings \in SettingsOfCalls :
          LET r == add_strategy_under(sm, strategies, name, view, performance, settings)
          IN  /\ sm' = r.sm
              /\ strategies' = r.strategies
              /\ outcome' = Call("add_strategy", name, view,
                                 [performance |-> performance, settings |-> settings], r.result)


\* sm.add_strategy(strategy, view) without a performance: cross validated
AddStrategyCrossValidated ==
    /\ Cardinality(UNION {{<<c, k>> : k \in DOMAIN sm.all_strategies[c]} :
                              c \in DOMAIN sm.all_strategies}) < MaxAdds
    /\ \E name \in DOMAIN strategies, view \in Views(FreshContexts, {100000}, {}, {}),
          performance \in FreshPerformances :
          LET r == add_strategy(sm, strategies, name, view, performance)
          IN  /\ sm' = r.sm
              /\ strategies' = r.strategies
              /\ outcome' = Call("add_strategy", name, view, NoObject, r.result)

\* sm.reevaluate_all_strategies(view)
ReevaluateAllStrategies ==
    \E view \in Views(FreshContexts, {100000}, {}, {}), fresh \in [DOMAIN strategies -> FreshPerformances] :
        LET r == reevaluate_all_strategies(sm, strategies, view, fresh)
        IN  /\ sm' = r.sm
            /\ strategies' = r.strategies
            /\ outcome' = Call("reevaluate_all_strategies", "", view, fresh, r.result)

\* sm.apply(view)
Apply ==
    \E view \in Views(Contexts, {100000}, DOMAIN strategies, {}) :
        /\ outcome' = Call("apply", "", view, NoObject, apply(sm, strategies, view))
        /\ UNCHANGED <<strategies, sm>>

\* sm.add_exit_strategy(strategy)
AddExitStrategy ==
    \E name \in DOMAIN strategies :
        LET r == add_exit_strategy(sm, strategies[name])
        IN  /\ sm' = r.sm
            /\ outcome' = Call("add_exit_strategy", name, NoObject, NoObject, r.result)
            /\ UNCHANGED strategies

\* sm.remove_exit_strategy(asset, timeframe)
RemoveExitStrategy ==
    \E context \in Contexts :
        LET r == remove_exit_strategy(sm, context[1], context[2])
        IN  /\ sm' = r.sm
            /\ outcome' = Call("remove_exit_strategy", "", NoObject, context, r.result)
            /\ UNCHANGED strategies

\* ------------------------------------------------------------------------
\* DataProvider._update_price_data (data_provider.py)
\* A row is its timestamp (idx, in hours) and the version of its values: "historical"
\* as the view holds them, "current" as the exchange has just sent them.
\* ------------------------------------------------------------------------
\* the timestamps 1..MaxHour; the call is made during the hour MaxHour
MaxHour == 4

Bars(hours, version) == [k \in 1..Cardinality(hours) |-> [idx |-> SortedSeq(hours)[k], version |-> version]]

\* df[df.index != date]
ExceptDate(df, date) == SelectSeq(df, LAMBDA row : row.idx # date)

\* df[df.index < date]
BeforeDate(df, date) == SelectSeq(df, LAMBDA row : row.idx < date)

\* DataFrame.sort_index(ascending=True): a stable sort, duplicates stay
RECURSIVE sort_index(_)
sort_index(df) ==
    IF df = <<>> THEN <<>>
    ELSE LET first == Head(df)
             rest == sort_index(Tail(df))
         IN  SelectSeq(rest, LAMBDA row : row.idx < first.idx) \o <<first>>
                 \o SelectSeq(rest, LAMBDA row : row.idx >= first.idx)

\* DataProvider._update_price_data, pd_current being what the exchange sent and
\* current_time the running hour; min of an empty index raises ValueError
update_price_data(price_data_df, pd_current, current_time) ==
    LET current == ExceptDate(pd_current, current_time)
        max_historical_date == Max({price_data_df[k].idx : k \in DOMAIN price_data_df})
    IN  IF current = <<>> THEN Raised("ValueError")
        ELSE IF Min({current[k].idx : k \in DOMAIN current}) > max_historical_date
        THEN Raised("DataProviderException")
        ELSE Returned(sort_index(BeforeDate(price_data_df, max_historical_date)
                                     \o FromDate(current, max_historical_date)))

\* the calls: the history of a view (increasing timestamps, all before the running
\* hour) and the rows an exchange sends (increasing, duplicate-free timestamps up
\* to the running hour)
UpdateCalls ==
    {[op |-> "_update_price_data", price_data_df |-> Bars(historical, "historical"),
      pd_current |-> Bars(sent, "current"), current_time |-> MaxHour] :
        historical \in SUBSET (1..(MaxHour - 1)) \ {{}}, sent \in SUBSET (1..MaxHour) \ {{}}}

InitUpdate == fn_in \in UpdateCalls /\ fn_out = NoObject

\* dp._update_price_data(price_data_df, asset, timeframe)
UpdatePriceData ==
    /\ fn_in # NoObject /\ fn_in.op = "_update_price_data"
    /\ fn_out = NoObject
    /\ fn_out' = update_price_data(fn_in.price_data_df, fn_in.pd_current, fn_in.current_time)
    /\ UNCHANGED fn_in

\* ------------------------------------------------------------------------
\* Bot._bot_job with the PortfolioManager and the exchange (bot.py,
\* portfolio_manager.py, exchange_bybit.py)
\* The exchange holds one position per asset (size 0: none). A call that can end in
\* several ways (the exchange answers, refuses, or the request fails) yields the set
\* of its possible outcomes.
\* ------------------------------------------------------------------------
\* run_bot.py:59-64: the contexts of price_data_list, in the order of the job
BotContextList == <<<<"BTCUSD", HOURLY>>, <<"ETHUSD", HOURLY>>>>
BotAssets == {BotContextList[k][1] : k \in DOMAIN BotContextList}

\* settings.trading.max_open_positions
max_open_positions == 1

\* ExchangeBybit.place_order: refused over an existing position, else one of the
\* failures or the order is accepted and the position opens
exchange_place_order(ex, order) ==
    IF ex[order.asset] > 0 THEN {[exchange |-> ex, status |-> "EXISTING_ORDER"]}
    ELSE {[exchange |-> ex, status |-> status] :
              status \in {"LEVERAGE_FAILED", "AVAILABLE_BALANCE_INSUFFICIENT", "FAILED_AT_REQUEST"}}
         \cup {[exchange |-> [ex EXCEPT ![order.asset] = 1], status |-> "ACCEPTED"]}

\* PortfolioManager.place_order; "ExchangeException" stands for the exception raised
\* when a request to the exchange fails
place_order(portfolio, ex, order) ==
    IF ~portfolio.live_mode THEN {[exchange |-> ex, status |-> "SIMULATION_ONLY"]}
    ELSE {[exchange |-> ex, status |-> "ExchangeException"]}
         \cup (IF Cardinality({asset \in DOMAIN ex : ex[asset] # 0}) >= max_open_positions
               THEN {[exchange |-> ex, status |-> "MAX_OPEN_POSITIONS"]}
               ELSE exchange_place_order(ex, order))

\* ExchangeBybit.exit_trade
exchange_exit_trade(ex, asset) ==
    IF ex[asset] = 0 THEN {[exchange |-> ex, status |-> "NO_TRADE_TO_CLOSE"]}
    ELSE {[exchange |-> [ex EXCEPT ![asset] = 0], status |-> "ACCEPTED"],
          [exchange |-> ex, status |-> "FAILED_AT_REQUEST"]}

\* PortfolioManager.exit_trade
exit_trade(portfolio, ex, asset) ==
    IF ~portfolio.live_mode THEN {[exchange |-> ex, status |-> "SIMULATION_ONLY"]}
    ELSE {[exchange |-> ex, status |-> "ExchangeException"]} \cup exchange_exit_trade(ex, asset)

\* StrategyManager.apply_exit_strategies
apply_exit_strategies(mgr, objects, view) ==
    IF view.context \in DOMAIN mgr.exit_strategies
    THEN apply_exit_strategy(objects[mgr.exit_strategies[view.context]], view)
    ELSE Returned(FALSE)

\* what a step of the job saw: was an exit strategy registered for the context when
\* the step began, what the exchange reported of the asset's position ("active",
\* "none", or "" when it was not asked or did not answer), did the signal lead to
\* an order (exit step) or to add_exit_strategy (entry step), and the order's status
Seen(registered, positions, signal, status) ==
    [registered |-> registered, positions |-> positions, signal |-> signal, status |-> status]

\* bot.py:157-160 with every order status removing the exit strategy
after_exit_trade_removing(mgr, status, asset, timeframe) == remove_exit_strategy(mgr, asset, timeframe).sm
\* bot.py:157-160: the exit strategy is removed when the closing order was accepted
after_exit_trade(mgr, status, asset, timeframe) ==
    IF status = "ACCEPTED" THEN remove_exit_strategy(mgr, asset, timeframe).sm ELSE mgr

\* Bot._apply_exit_strategies_for_price_data: the possible outcomes. The position can
\* be closed by its TP/SL between get_active_positions and exit_trade.
apply_exit_strategies_for_price_data(mgr, objects, portfolio, ex, view) ==
    LET asset == view.context[1]
        timeframe == view.context[2]
        positions == IF ex[asset] > 0 THEN "active" ELSE "none"
        mgr_1 == IF ex[asset] > 0 THEN mgr ELSE remove_exit_strategy(mgr, asset, timeframe).sm
        signalled == apply_exit_strategies(mgr_1, objects, view)
    IN  IF view.context \notin DOMAIN mgr.exit_strategies
        THEN {[sm |-> mgr, exchange |-> ex, seen |-> Seen(FALSE, "", FALSE, ""),
               result |-> Returned(NoObject)]}
        ELSE {[sm |-> mgr, exchange |-> ex, seen |-> Seen(TRUE, "", FALSE, ""),
               result |-> Raised("ExchangeException")]}
             \cup
             (IF signalled.raised # ""
              THEN {[sm |-> mgr_1, exchange |-> ex, seen |-> Seen(TRUE, positions, FALSE, ""),
                     result |-> signalled]}
              ELSE IF ~signalled.value
              THEN {[sm |-> mgr_1, exchange |-> ex, seen |-> Seen(TRUE, positions, FALSE, ""),
                     result |-> Returned(NoObject)]}
              ELSE {[sm |-> IF t.status = "ExchangeException" THEN mgr_1
                            ELSE after_exit_trade(mgr_1, t.status, asset, timeframe),
                     exchange |-> t.exchange,
                     seen |-> Seen(TRUE, positions, TRUE, t.status),
                     result |-> IF t.status = "ExchangeException"
                                THEN Raised("ExchangeException") ELSE Returned(NoObject)] :
                        t \in UNION {exit_trade(portfolio, ex_1, asset) :
                                        ex_1 \in {ex, [ex EXCEPT ![asset] = 0]}}})

\* Bot._apply_entry_strategies_for_price_data: the possible outcomes; seen.signal tells
\* whether add_exit_strategy was called
apply_entry_strategies_for_price_data(mgr, objects, portfolio, ex, view) ==
    LET order == apply(mgr, objects, view)
        registered == view.context \in DOMAIN mgr.exit_strategies
    IN  IF order.raised # ""
        THEN {[sm |-> mgr, exchange |-> ex, seen |-> Seen(registered, "", FALSE, ""), result |-> order]}
        ELSE IF order.value = NoObject
        THEN {[sm |-> mgr, exchange |-> ex, seen |-> Seen(registered, "", FALSE, ""),
               result |-> Returned(NoObject)]}
        ELSE {LET from_strategy == objects[order.value.from_strategy]
                  added == add_exit_strategy(mgr, from_strategy)
              IN  IF t.status = "ExchangeException"
                  THEN [sm |-> mgr, exchange |-> t.exchange,
                        seen |-> Seen(registered, "", FALSE, t.status),
                        result |-> Raised("ExchangeException")]
                  ELSE IF t.status = "ACCEPTED" /\ from_strategy.exit_signal # None
                  THEN [sm |-> added.sm, exchange |-> t.exchange,
                        seen |-> Seen(registered, "", TRUE, t.status),
                        result |-> added.result]
                  ELSE [sm |-> mgr, exchange |-> t.exchange,
                        seen |-> Seen(registered, "", FALSE, t.status),
                        result |-> Returned(NoObject)] :
                 t \in place_order(portfolio, ex, order.value)}

\* the job goes on to the next context of price_data_list, or ends
NextContext(pc) ==
    IF pc.k < Len(BotContextList) THEN [step |-> "exit", k |-> pc.k + 1]
    ELSE [step |-> "idle", k |-> 0]

\* run_bot.py:105-117: the strategies of the model are added for their contexts, the
\* bot starts with no exit strategy and an exchange without positions
InitBot ==
    /\ LET objects == [name \in {"short_exit", "long_tpsl"} |-> Strategy(name)]
           first == add_strategy(StrategyManager, objects, "short_exit",
                                 [context |-> BotContextList[1], Close |-> 100000, fires |-> {}, exits |-> {}],
                                 StrategyPerformance(60, 70, <<1, 1>>))
           second == add_strategy(first.sm, first.strategies, "long_tpsl",
                                  [context |-> BotContextList[2], Close |-> 100000, fires |-> {}, exits |-> {}],
                                  StrategyPerformance(60, 70, <<1, 1>>))
       IN  strategies = second.strategies /\ sm = second.sm
    /\ outcome = Call("new", "", NoObject, NoObject, Returned(NoObject))
    /\ bot_pc = [step |-> "idle", k |-> 0]
    /\ pm \in [live_mode : BOOLEAN]
    /\ exchange = [asset \in BotAssets |-> 0]

\* bot.py:106-109: schedule starts _bot_job
StartJob ==
    /\ bot_pc.step = "idle"
    /\ bot_pc' = [step |-> "exit", k |-> 1]
    /\ UNCHANGED <<strategies, sm, outcome, pm, exchange>>

\* bot.py:113-117, 124-126: updating the price data raises and the context is left
SkipContext ==
    /\ bot_pc.step = "exit"
    /\ bot_pc' = NextContext(bot_pc)
    /\ outcome' = Call("get_updated_price_data", "", NoObject, NoObject, Raised("DataProviderException"))
    /\ UNCHANGED <<strategies, sm, pm, exchange>>

\* bot.py:120: the exit step of one context on the updated price data, whose latest
\* row decides the exit rules that hold; an exception leaves the context
ExitStep ==
    /\ bot_pc.step = "exit"
    /\ \E view \in Views({BotContextList[bot_pc.k]}, {100000}, {}, DOMAIN strategies) :
          \E r \in apply_exit_strategies_for_price_data(sm, strategies, pm, exchange, view) :
             /\ sm' = r.sm
             /\ exchange' = r.exchange
             /\ outcome' = Call("_apply_exit_strategies_for_price_data", "", view, r.seen, r.result)
             /\ bot_pc' = IF r.result.raised # "" THEN NextContext(bot_pc)
                          ELSE [bot_pc EXCEPT !.step = "entry"]
    /\ UNCHANGED <<strategies, pm>>

\* bot.py:123: the entry step of one context on the same price data, whose latest
\* row decides the entry rules that hold
EntryStep ==
    /\ bot_pc.step = "entry"
    /\ \E view \in Views({BotContextList[bot_pc.k]}, {100000}, DOMAIN strategies, {}) :
          \E r \in apply_entry_strategies_for_price_data(sm, strategies, pm, exchange, view) :
             /\ sm' = r.sm
             /\ exchange' = r.exchange
             /\ outcome' = Call("_apply_entry_strategies_for_price_data", "", view, r.seen, r.result)
    /\ bot_pc' = NextContext(bot_pc)
    /\ UNCHANGED <<strategies, pm>>

\* the exchange closes a position when its TP or SL price is reached, at any moment
TpSlClose ==
    /\ \E asset \in BotAssets :
          /\ exchange[asset] > 0
          /\ exchange' = [exchange EXCEPT ![asset] = 0]
    /\ UNCHANGED <<strategies, sm, outcome, bot_pc, pm>>

\* ------------------------------------------------------------------------
\* Specifications
\* ------------------------------------------------------------------------
InitExit == InitScan /\ IdleBt /\ IdleSplit /\ IdlePd /\ IdleSm /\ IdleMore
NextExit == ScanExit /\ UNCHANGED <<vars_bt, vars_split, vars_pd, vars_sm, vars_more>>
SpecExit == InitExit /\ [][NextExit]_vars

InitBacktest == InitBt /\ IdleScan /\ IdleSplit /\ IdlePd /\ IdleSm /\ IdleMore
NextBacktest ==
    \/ EnterTrade /\ UNCHANGED <<vars_scan, vars_split, vars_pd, vars_sm, vars_more>>
    \/ DiscardSignal /\ UNCHANGED <<vars_scan, vars_split, vars_pd, vars_sm, vars_more>>
    \/ SkipSignal /\ UNCHANGED <<vars_scan, vars_split, vars_pd, vars_sm, vars_more>>
    \/ FinishBacktest /\ UNCHANGED <<vars_scan, vars_split, vars_pd, vars_sm, vars_more>>
SpecBacktest == InitBacktest /\ [][NextBacktest]_vars

InitSplitSpec == InitSplit /\ IdleScan /\ IdleBt /\ IdlePd /\ IdleSm /\ IdleMore
NextSplit ==
    \/ SplitStart /\ UNCHANGED <<vars_scan, vars_bt, vars_pd, vars_sm, vars_more>>
    \/ YieldFold /\ UNCHANGED <<vars_scan, vars_bt, vars_pd, vars_sm, vars_more>>
    \/ SplitRaise /\ UNCHANGED <<vars_scan, vars_bt, vars_pd, vars_sm, vars_more>>
    \/ SplitExhausted /\ UNCHANGED <<vars_scan, vars_bt, vars_pd, vars_sm, vars_more>>
SpecSplit == InitSplitSpec /\ [][NextSplit]_vars

InitBotSpec == InitBot /\ IdleScan /\ IdleBt /\ IdleSplit /\ IdlePd /\ IdleXv /\ IdleFn
NextBot ==
    \/ StartJob /\ UNCHANGED <<vars_scan, vars_bt, vars_split, vars_pd, vars_xv, vars_fn>>
    \/ SkipContext /\ UNCHANGED <<vars_scan, vars_bt, vars_split, vars_pd, vars_xv, vars_fn>>
    \/ ExitStep /\ UNCHANGED <<vars_scan, vars_bt, vars_split, vars_pd, vars_xv, vars_fn>>
    \/ EntryStep /\ UNCHANGED <<vars_scan, vars_bt, vars_split, vars_pd, vars_xv, vars_fn>>
    \/ TpSlClose /\ UNCHANGED <<vars_scan, vars_bt, vars_split, vars_pd, vars_xv, vars_fn>>
SpecBot == InitBotSpec /\ [][NextBot]_vars

InitMerge == InitPd /\ IdleScan /\ IdleBt /\ IdleSplit /\ IdleSm /\ IdleMore
NextMerge ==
    \/ Construct /\ UNCHANGED <<vars_scan, vars_bt, vars_split, vars_sm, vars_more>>
    \/ GetPriceData /\ UNCHANGED <<vars_scan, vars_bt, vars_split, vars_sm, vars_more>>
SpecMerge == InitMerge /\ [][NextMerge]_vars

InitMergeGaps == InitPdGaps /\ IdleScan /\ IdleBt /\ IdleSplit /\ IdleSm /\ IdleMore
SpecMergeGaps == InitMergeGaps /\ [][NextMerge]_vars

InitRead == InitPd /\ IdleScan /\ IdleBt /\ IdleSplit /\ IdleSm /\ IdleMore
NextRead ==
    \/ Construct /\ UNCHANGED <<vars_scan, vars_bt, vars_split, vars_sm, vars_more>>
    \/ GetPriceData /\ UNCHANGED <<vars_scan, vars_bt, vars_split, vars_sm, vars_more>>
    \/ GetPriceDataDf /\ UNCHANGED <<vars_scan, vars_bt, vars_split, vars_sm, vars_more>>
    \/ BuildMirror /\ UNCHANGED <<vars_scan, vars_bt, vars_split, vars_sm, vars_more>>
SpecRead == InitRead /\ [][NextRead]_vars

InitLookbackSpec == InitLookback /\ IdleScan /\ IdleBt /\ IdleSplit /\ IdlePd /\ IdleSm /\ IdleXv /\ IdleBot
NextLookback ==
    \/ UpdateMaxWindow /\ UNCHANGED <<vars_scan, vars_bt, vars_split, vars_pd, vars_sm, vars_xv, vars_bot>>
    \/ GetLookbackWindow /\ UNCHANGED <<vars_scan, vars_bt, vars_split, vars_pd, vars_sm, vars_xv, vars_bot>>
SpecLookback == InitLookbackSpec /\ [][NextLookback]_vars

InitUpdateSpec == InitUpdate /\ IdleScan /\ IdleBt /\ IdleSplit /\ IdlePd /\ IdleSm /\ IdleXv /\ IdleBot
NextUpdate == UpdatePriceData /\ UNCHANGED <<vars_scan, vars_bt, vars_split, vars_pd, vars_sm, vars_xv, vars_bot>>
SpecUpdate == InitUpdateSpec /\ [][NextUpdate]_vars

InitLeverageSpec == InitLeverage /\ IdleScan /\ IdleBt /\ IdleSplit /\ IdlePd /\ IdleSm /\ IdleXv /\ IdleBot
NextLeverage == GetLeverageForPrices /\ UNCHANGED <<vars_scan, vars_bt, vars_split, vars_pd, vars_sm, vars_xv, vars_bot>>
SpecLeverage == InitLeverageSpec /\ [][NextLeverage]_vars

InitCrossValidate == InitXv /\ IdleScan /\ IdlePd /\ IdleSm /\ IdleFn /\ IdleBot
NextCrossValidate ==
    \/ XvSplitStart /\ UNCHANGED <<vars_scan, vars_pd, vars_sm, vars_fn, vars_bot>>
    \/ BeginFold /\ UNCHANGED <<vars_scan, vars_pd, vars_sm, vars_fn, vars_bot>>
    \/ EvaluateFold /\ UNCHANGED <<vars_scan, vars_pd, vars_sm, vars_fn, vars_bot>>
    \/ EndFold /\ UNCHANGED <<vars_scan, vars_pd, vars_sm, vars_fn, vars_bot>>
    \/ XvSplitRaise /\ UNCHANGED <<vars_scan, vars_pd, vars_sm, vars_fn, vars_bot>>
    \/ FinishCrossValidation /\ UNCHANGED <<vars_scan, vars_pd, vars_sm, vars_fn, vars_bot>>
SpecCrossValidate == InitCrossValidate /\ [][NextCrossValidate]_vars

IdleData == IdleScan /\ IdleBt /\ IdleSplit /\ IdlePd /\ IdleMore
vars_data == <<vars_scan, vars_bt, vars_split, vars_pd, vars_more>>

InitRowsSpec == InitRows /\ IdleData
NextRows == ApplyEntryStrategyRows /\ UNCHANGED vars_data
SpecRows == InitRowsSpec /\ [][NextRows]_vars

InitStrategy == InitSm({"short_exit", "long_no_sl", "long_no_exit"}) /\ IdleData
NextStrategy ==
    \/ Initialize /\ UNCHANGED vars_data
    \/ SetPerformance /\ UNCHANGED vars_data
    \/ GetDataWithSignals /\ UNCHANGED vars_data
    \/ ApplyEntryStrategy /\ UNCHANGED vars_data
    \/ ApplyExitStrategy /\ UNCHANGED vars_data
SpecStrategy == InitStrategy /\ [][NextStrategy]_vars

InitOrder == InitSm({"short_exit", "long_no_exit"}) /\ IdleData
NextOrder == ConstructOrder /\ UNCHANGED vars_data
SpecOrder == InitOrder /\ [][NextOrder]_vars

InitExitStrategies == InitSm({"long_tpsl", "short_exit"}) /\ IdleData
NextExitStrategies ==
    \/ Initialize /\ UNCHANGED vars_data
    \/ AddExitStrategy /\ UNCHANGED vars_data
    \/ RemoveExitStrategy /\ UNCHANGED vars_data
SpecExitStrategies == InitExitStrategies /\ [][NextExitStrategies]_vars

InitManager == InitSm({"long_tpsl", "short_exit"}) /\ IdleData
NextManager ==
    \/ AddStrategy /\ UNCHANGED vars_data
    \/ Apply /\ UNCHANGED vars_data
SpecManager == InitManager /\ [][NextManager]_vars

InitSettings == InitSm({"long_tpsl", "short_exit"}) /\ IdleData
NextSettings == AddStrategyUnderSettings /\ UNCHANGED vars_data
SpecSettings == InitSettings /\ [][NextSettings]_vars

InitReevaluate == InitSm({"long_tpsl", "short_exit"}) /\ IdleData
NextReevaluate ==
    \/ AddStrategyCrossValidated /\ UNCHANGED vars_data
    \/ AddExitStrategy /\ UNCHANGED vars_data
    \/ ReevaluateAllStrategies /\ UNCHANGED vars_data
SpecReevaluate == InitReevaluate /\ [][NextReevaluate]_vars

\* ------------------------------------------------------------------------
\* Properties of the exit scan and of the backtest loop
\* ------------------------------------------------------------------------
\* a bar is beyond the stop-loss / take-profit price (the comparison the scan uses)
SlTouched(row, sl_price, trading_type) ==
    IF trading_type = LONG THEN row.Low < sl_price ELSE row.High > sl_price
TpTouched(row, tp_price, trading_type) ==
    IF trading_type = LONG THEN row.High > tp_price ELSE row.Low < tp_price

ScanSlPrice == get_sl_price(scan_sl, scan_df[1].Close, scan_type)
ScanTpPrice == get_tp_price(scan_tp, scan_df[1].Close, scan_type)
ScanAfter == {scan_df[i] : i \in 2..Len(scan_df)}
ScanSlTouches ==
    IF ScanSlPrice = None THEN {}
    ELSE {r.idx : r \in {q \in ScanAfter : SlTouched(q, ScanSlPrice, scan_type)}}
ScanTpTouches ==
    IF ScanTpPrice = None THEN {}
    ELSE {r.idx : r \in {q \in ScanAfter : TpTouched(q, ScanTpPrice, scan_type)}}
ScanExitBars == {r.idx : r \in {q \in ScanAfter : q.Exit}}
ScanAllExits == ScanSlTouches \cup ScanTpTouches \cup ScanExitBars

\* C1: the trades recorded by evaluate_performance do not overlap: every
\* trade exits strictly after its own entry, and the next trade is entered
\* strictly after the previous trade's exit; every trade is entered on a row
\* that carries an entry signal.
C1_TradesDoNotOverlap ==
    /\ \A i \in DOMAIN trades :
          /\ trades[i].exit > trades[i].entry
          /\ \E j \in DOMAIN bt_df : bt_df[j].idx = trades[i].entry /\ bt_df[j].Enter
    /\ \A i \in 1..(Len(trades) - 1) : trades[i + 1].entry > trades[i].exit
    /\ trades # <<>> => last_exit_idx = trades[Len(trades)].exit

\* two trades were recorded, and an entry signal on the very bar that closed
\* the first one was skipped
C1_Witness ==
    /\ bt_result # NoObject
    /\ Len(trades) = 2
    /\ \E j \in DOMAIN bt_df : bt_df[j].Enter /\ bt_df[j].idx = trades[1].exit

\* C3: the scan returns the earliest of the first stop-loss touch, the first
\* take-profit touch and the first exit-signal bar after the entry row (None
\* when there is none); the stop-loss wins a tie, then the take-profit, then
\* the exit signal.
C3_EarliestExitSlThenTp ==
    scan_pc = "done" =>
        IF ScanAllExits = {} THEN exit_signal = NoObject
        ELSE LET first == Min(ScanAllExits)
             IN  /\ exit_signal # NoObject
                 /\ exit_signal.idx = first
                 /\ first \in ScanSlTouches => exit_signal.exit_price = ScanSlPrice
                 /\ (first \notin ScanSlTouches /\ first \in ScanTpTouches)
                        => exit_signal.exit_price = ScanTpPrice
                 /\ first \notin (ScanSlTouches \cup ScanTpTouches)
                        => exit_signal.exit_price \notin {ScanSlPrice, ScanTpPrice}

\* all three events fall on the same bar, not the first one after the entry,
\* and the stop-loss is returned
C3_Witness ==
    /\ scan_pc = "done"
    /\ exit_signal # NoObject
    /\ exit_signal.idx > 2
    /\ exit_signal.idx \in (ScanSlTouches \cap ScanTpTouches \cap ScanExitBars)
    /\ exit_signal.exit_price = ScanSlPrice

\* the return of the trade the scan closes, for a given fee
ScanProfit(fees) ==
    get_profit_for_signal([trading_type |-> scan_type, tp |-> scan_tp, sl |-> scan_sl,
                           leverage_reduction |-> 10], scan_df, 1, 20, fees)

\* C4: a trade closed by the stop-loss exits at the stop-loss price, one
\* closed by the take-profit at the take-profit price, one closed by the exit
\* signal at the Close of the exit bar; a long trade whose stop-loss is
\* touched while the trade is open and before any take-profit touch exits at
\* the stop-loss price, below the entry price, with a negative return.
C4_ExitPriceByKind ==
    (scan_pc = "done" /\ exit_signal # NoObject) =>
        LET at == exit_signal.idx
            kind == IF at \in ScanSlTouches THEN "sl"
                    ELSE IF at \in ScanTpTouches THEN "tp" ELSE "signal"
        IN  /\ kind = "sl" => exit_signal.exit_price = ScanSlPrice
            /\ kind = "tp" => exit_signal.exit_price = ScanTpPrice
            /\ kind = "signal" => exit_signal.exit_price = RowAt(scan_df, at).Close
            /\ (/\ scan_type = LONG
                /\ ScanSlTouches # {}
                /\ \A t \in ScanTpTouches : Min(ScanSlTouches) < t
                /\ \A x \in ScanExitBars : Min(ScanSlTouches) <= x)
                   => /\ exit_signal.exit_price = ScanSlPrice
                      /\ exit_signal.exit_price < scan_df[1].Close
                      /\ exit_signal.exit_price # RowAt(scan_df, at).Close
                      /\ \A fees \in {0, 1} :
                            ScanProfit(fees).leverage > 0 => ScanProfit(fees).p.n < 0

\* a long trade stopped out on the second bar after the entry, before a later
\* bar reaches the take-profit
C4_Witness ==
    /\ scan_pc = "done"
    /\ scan_type = LONG
    /\ exit_signal # NoObject
    /\ exit_signal.idx = 3
    /\ exit_signal.exit_price = ScanSlPrice
    /\ ScanTpTouches = {}
    /\ ScanProfit(1).p.n < 0

BucketRows(tf, s) ==
    SelectSeq(raw.price_data_df, LAMBDA row : s <= row.idx /\ row.idx < s + BucketHours(tf))

\* what a merged row shows of the bucket of tf that starts at s, when the
\* row's own bar closes at close
BucketColumns(tf, s, close, convert) ==
    LET bar == AggregateRows(BucketRows(tf, s), s)
        shown == IF convert THEN get_price_data_df(<<bar>>, TRUE)[1] ELSE bar
    IN  MergedColumns(shown, close, convert)

\* bucket starts of tf up to timestamp t
BucketStarts(tf, t) == {s \in 0..t : s % BucketHours(tf) = 0}

\* C2: no look-ahead in the merged frame: in every row r of the frame
\* returned by get_price_data, the columns of a higher timeframe are either
\* NaN or the aggregate of one bucket of that timeframe which had fully closed
\* at or before r's timestamp (bucket start + bucket duration <= r).
C2_NoLookAhead ==
    merged # NoObject =>
        \A k \in DOMAIN merged.df :
            \A tf \in DOMAIN merged.df[k].tf :
                LET r == merged.df[k].own.idx
                    close == price_data.data[price_data.timeframe][k].Close
                    shown == merged.df[k].tf[tf]
                IN  shown # NoObject =>
                        \E s \in BucketStarts(tf, r) :
                            /\ s + BucketHours(tf) <= r
                            /\ BucketRows(tf, s) # <<>>
                            /\ shown = BucketColumns(tf, s, close, merged.convert)

\* an hourly row in the middle of a day carries the forward-filled bar of the
\* previous day, and a daily row carries the bar of the previous week
C2_Witness ==
    /\ merged # NoObject
    /\ \E k \in DOMAIN merged.df :
          LET row == merged.df[k]
          IN  \/ /\ DAILY \in DOMAIN row.tf
                 /\ FOURHOURLY \in DOMAIN row.tf
                 /\ row.tf[DAILY] # NoObject
                 /\ row.own.idx % 24 = 1
              \/ /\ WEEKLY \in DOMAIN row.tf
                 /\ row.tf[WEEKLY] # NoObject
                 /\ row.own.idx % 168 = 24

\* ------------------------------------------------------------------------
\* Properties of orders, strategies and the manager
\* ------------------------------------------------------------------------
\* the distance of the SL price of a constructed order from its entry price,
\* in the direction of the loss
OrderSlDistance(args) ==
    IF args.trading_type = LONG THEN args.entering_price_planned - args.sl_price
    ELSE args.sl_price - args.entering_price_planned

\* C6: a successfully constructed OrderInformation with an SL price has a
\* leverage that does not exceed the liquidation leverage entry / distance,
\* and constructing one whose leverage exceeds it raises ValueError.
C6_LeverageWithinLiquidation ==
    (outcome.op = "OrderInformation" /\ outcome.args.sl_price # None
        /\ OrderSlDistance(outcome.args) # 0) =>
        LET exceeds == \/ OrderSlDistance(outcome.args) < 0
                       \/ outcome.args.leverage * OrderSlDistance(outcome.args)
                              > outcome.args.entering_price_planned
        IN  /\ outcome.result.raised = "" => ~exceeds
            /\ exceeds => outcome.result = Raised("ValueError")

\* what a step of add_exit_strategy does to the manager
AddExitStep ==
    LET context == strategies[outcome'.strategy].init_for_context
        before == sm.exit_strategies
        after == sm'.exit_strategies
    IN  IF context = NoObject THEN sm' = sm
        ELSE IF context \in DOMAIN before
        THEN outcome'.result = Raised("RuntimeError") /\ sm' = sm
        ELSE /\ outcome'.result.raised = ""
             /\ DOMAIN after = DOMAIN before \cup {context}
             /\ after[context] = outcome'.strategy
             /\ \A c \in DOMAIN before : after[c] = before[c]

\* what a step of remove_exit_strategy does to the manager
RemoveExitStep ==
    LET context == outcome'.args
        before == sm.exit_strategies
        after == sm'.exit_strategies
    IN  /\ outcome'.result.raised = ""
        /\ (context \notin DOMAIN before => sm' = sm)
        /\ DOMAIN after = DOMAIN before \ {context}
        /\ \A c \in DOMAIN after : after[c] = before[c]

\* C7: add_exit_strategy for a context that already has an exit strategy
\* raises RuntimeError and leaves the manager unchanged; for a free context
\* it registers the strategy and touches no other context;
\* remove_exit_strategy removes the entry of its context only, and for a
\* context without an exit strategy it changes nothing and raises nothing.
C7_OneExitStrategyPerContext ==
    [][(outcome'.op = "add_exit_strategy" => AddExitStep)
       /\ (outcome'.op = "remove_exit_strategy" => RemoveExitStep)
       /\ (outcome'.op = "initialize" => sm' = sm)]_vars

\* add_exit_strategy was refused with RuntimeError while two contexts hold an
\* exit strategy
C7_Witness ==
    /\ outcome.op = "add_exit_strategy"
    /\ outcome.result = Raised("RuntimeError")
    /\ Cardinality(DOMAIN sm.exit_strategies) = 2

\* the list a dict of lists holds for a key, empty for a missing key
ListOf(d, key) == IF key \in DOMAIN d THEN d[key] ELSE <<>>

\* C8: add_strategy always appends the strategy to all_strategies[context];
\* it returns False and leaves current_strategies alone exactly when
\* win_rate < threshold_strategy_winrate, or pps < threshold_strategy_pps, or
\* more than allowed_negative_folds entries of performance_detailed are
\* negative (a NaN is below nothing); otherwise it appends the strategy to the
\* end of current_strategies[context] and returns True.
C8_AddStrategyAcceptance ==
    [][outcome'.op = "add_strategy" =>
        LET context == outcome'.view.context
            name == outcome'.strategy
            performance == outcome'.args
            below == \/ performance.win_rate # NaN /\ performance.win_rate < 50
                     \/ performance.pps # NaN /\ performance.pps < 50
                     \/ Cardinality({k \in DOMAIN performance.performance_detailed :
                                        performance.performance_detailed[k] < 0}) > 1
        IN  /\ sm'.all_strategies[context] = Append(ListOf(sm.all_strategies, context), name)
            /\ \A c \in DOMAIN sm'.all_strategies \ {context} :
                   c \in DOMAIN sm.all_strategies
                       /\ sm'.all_strategies[c] = sm.all_strategies[c]
            /\ outcome'.result = Returned(~below)
            /\ below => sm'.current_strategies = sm.current_strategies
            /\ ~below =>
                   /\ sm'.current_strategies[context]
                          = Append(ListOf(sm.current_strategies, context), name)
                   /\ \A c \in DOMAIN sm'.current_strategies \ {context} :
                          c \in DOMAIN sm.current_strategies
                              /\ sm'.current_strategies[c] = sm.current_strategies[c]]_vars

\* a strategy with a NaN win rate was accepted into a context in which an
\* earlier strategy had been rejected
C8_Witness ==
    /\ outcome.op = "add_strategy"
    /\ outcome.result = Returned(TRUE)
    /\ outcome.args.win_rate = NaN
    /\ Len(sm.all_strategies[outcome.view.context]) = 2
    /\ Len(sm.current_strategies[outcome.view.context]) = 1

\* the positions of the active list of the applied view's context whose
\* strategy fired on the latest row
Fired ==
    LET list == ListOf(sm.current_strategies, outcome.view.context)
    IN  {k \in DOMAIN list : list[k] \in outcome.view.fires}

PpsAt(k) == strategies[sm.current_strategies[outcome.view.context][k]].strategy_performance.pps

\* C9: when StrategyManager.apply returns, it returns None if no active
\* strategy of the view's context fired (or the context has none), and
\* otherwise the order of the fired strategy with the highest PPS, the
\* earliest in the active list among those that share it.
C9_ApplyReturnsBestOrder ==
    (outcome.op = "apply" /\ outcome.result.raised = "") =>
        IF Fired = {} THEN outcome.result.value = NoObject
        ELSE /\ outcome.result.value # NoObject
             /\ \E k \in Fired :
                   /\ \A j \in Fired : PpsAt(j) <= PpsAt(k)
                   /\ \A j \in Fired : PpsAt(j) = PpsAt(k) => k <= j
                   /\ outcome.result.value.from_strategy
                          = sm.current_strategies[outcome.view.context][k]
                   /\ outcome.result.value.pps = PpsAt(k)

\* apply returned the order of the first of two different strategies that
\* fired with the same PPS
C9_Witness ==
    /\ outcome.op = "apply"
    /\ outcome.result.raised = ""
    /\ Fired = {1, 2}
    /\ PpsAt(1) = PpsAt(2)
    /\ sm.current_strategies[outcome.view.context][1]
           # sm.current_strategies[outcome.view.context][2]
    /\ outcome.result.value.from_strategy = sm.current_strategies[outcome.view.context][1]

\* the strategy a call was made on, and whether it is bound to the view's context
Called == strategies[outcome.strategy]
CalledOnStrategy ==
    outcome.op \in {"_get_data_with_signals", "apply_entry_strategy", "apply_exit_strategy"}
BoundToView ==
    Called.init_for_context # NoObject /\ Called.init_for_context = outcome.view.context

\* initialize binds its strategy to the context of its view, and nothing else
\* changes any binding
BindingSteps ==
    [][\A name \in DOMAIN strategies :
          strategies'[name].init_for_context =
              IF outcome'.op = "initialize" /\ outcome'.strategy = name
              THEN outcome'.view.context
              ELSE strategies[name].init_for_context]_vars

ZeroTradesFold == bt_result # NoObject /\ bt_result.performance_detailed = <<>>
ZeroTradesTotal == xv_result # NoObject /\ Chain(performance_per_fold_detailed) = <<>>

\* C11 as stated: when evaluate_performance or cross_validate_strategy records
\* zero trades, the returned win rate and the returned PPS are both NaN.
C11_Original ==
    /\ ZeroTradesFold => bt_result.win_rate = NaN /\ bt_result.pps = NaN
    /\ ZeroTradesTotal => xv_result.win_rate = NaN /\ xv_result.pps = NaN

\* C11 amended: when evaluate_performance or cross_validate_strategy records
\* zero trades, the returned win rate is NaN and the returned PPS is 0.0; with
\* at least one trade neither value is NaN.
C11_ZeroTradesNanWinRateZeroPps ==
    /\ ZeroTradesFold => bt_result.win_rate = NaN /\ bt_result.pps = 0
    /\ ZeroTradesTotal => xv_result.win_rate = NaN /\ xv_result.pps = 0
    /\ (bt_result # NoObject /\ ~ZeroTradesFold) => bt_result.win_rate # NaN /\ bt_result.pps # NaN
    /\ (xv_result # NoObject /\ ~ZeroTradesTotal) => xv_result.win_rate # NaN /\ xv_result.pps # NaN

\* a cross-validation over at least one fold with an entry signal in its test
\* rows returned without a single trade
C11_Witness ==
    /\ ZeroTradesTotal
    /\ Len(performance_per_fold_detailed) >= 1
    /\ EntryIndex(bt_df) # <<>>


\* ------------------------------------------------------------------------
\* Leverage bound (trade_risk_control.py:88-103)
\* ------------------------------------------------------------------------
LeverageReturned == fn_out # NoObject /\ fn_in.op = "get_leverage_for_prices" /\ fn_out.raised = ""
SlDistance == Abs(fn_in.entry_price_planned - fn_in.sl_price)
\* entry price and SL distance in lowest terms: 1 / distance = EntryReduced / DistanceReduced
EntryReduced == fn_in.entry_price_planned \div Gcd(fn_in.entry_price_planned, SlDistance)
DistanceReduced == SlDistance \div Gcd(fn_in.entry_price_planned, SlDistance)

PassesAcceptance(performance) ==
    /\ performance.win_rate = NaN \/ performance.win_rate >= 50
    /\ performance.pps = NaN \/ performance.pps >= 50
    /\ Cardinality({k \in DOMAIN performance.performance_detailed :
                       performance.performance_detailed[k] < 0}) <= 1

\* C13: a reevaluate_all_strategies(view) that returns replaces the active list
\* of the view's context with exactly those strategies of all_strategies[context]
\* whose fresh performance passes the acceptance check, in registration order;
\* all_strategies, the other contexts' active lists and the exit strategies
\* are unchanged.
C13_ReevaluationReplacesActiveList ==
    [][(outcome'.op = "reevaluate_all_strategies" /\ outcome'.result.raised = "") =>
        LET context == outcome'.view.context
            fresh == outcome'.args
        IN  /\ context \in DOMAIN sm'.current_strategies
            /\ sm'.current_strategies[context]
                   = SelectSeq(sm.all_strategies[context], LAMBDA name : PassesAcceptance(fresh[name]))
            /\ DOMAIN sm'.current_strategies = DOMAIN sm.current_strategies \cup {context}
            /\ \A c \in DOMAIN sm.current_strategies \ {context} :
                   sm'.current_strategies[c] = sm.current_strategies[c]
            /\ sm'.all_strategies = sm.all_strategies
            /\ sm'.exit_strategies = sm.exit_strategies]_vars

\* a re-evaluation emptied an active list that held a strategy, while another
\* context kept its active strategy and an exit strategy was registered
C13_Witness ==
    /\ outcome.op = "reevaluate_all_strategies"
    /\ outcome.result.raised = ""
    /\ Len(sm.all_strategies[outcome.view.context]) = 1
    /\ sm.current_strategies[outcome.view.context] = <<>>
    /\ \E c \in DOMAIN sm.current_strategies : sm.current_strategies[c] # <<>>
    /\ DOMAIN sm.exit_strategies # {}


\* ------------------------------------------------------------------------
\* Reading a view (price_data.py:92-124, 337-362)
\* ------------------------------------------------------------------------
\* the view as its constructor built it from the raw frame
ViewAsBuilt == PriceDataComplete(raw.price_data_df, raw.timeframe, raw.aggregations)

OrderWithoutTp == outcome.op = "OrderInformation" /\ outcome.args.tp_price = None
\* the second order of test__validate_order: LONG, entry 1000, SL 900, leverage 20
OrderOfTest ==
    /\ outcome.args.trading_type = LONG /\ outcome.args.entering_price_planned = 1000000
    /\ outcome.args.sl_price = 900000 /\ outcome.args.leverage = 20
\* the leverage does not exceed the liquidation leverage of the SL
OrderLeverageCovered ==
    \/ outcome.args.sl_price = None
    \/ /\ OrderSlDistance(outcome.args) > 0
       /\ outcome.args.leverage * OrderSlDistance(outcome.args) <= outcome.args.entering_price_planned

\* C15: an OrderInformation with no take-profit price is constructed when the
\* strategy has an exit signal, as for the LONG order with entry 1000, SL 900
\* and leverage 20 of the test (and for every order whose leverage the SL
\* covers), and raises ValueError when the strategy has no exit signal either.
C15_NoTpNeedsExitSignal ==
    OrderWithoutTp =>
        /\ (strategies[outcome.strategy].exit_signal # None /\ (OrderOfTest \/ OrderLeverageCovered))
              => outcome.result.raised = ""
        /\ strategies[outcome.strategy].exit_signal = None
              => outcome.result = Raised("ValueError")


\* ------------------------------------------------------------------------
\* The rows reserved for testing (price_data_split.py:47-60)
\* ------------------------------------------------------------------------
\* C16: a split in the validation phase removes the trailing `offset` rows of
\* the frame before it builds folds: no yielded train or test index refers to
\* one of the last `offset` rows, and the test window of the last fold ends at
\* the row just before the reserved block.
C16_ReservedRowsUntouched ==
    (cv # NoObject /\ split_pc # "new") =>
        /\ split_len = Max({X_len - cv.offset, 0})
        /\ \A k \in DOMAIN yielded :
              /\ \A j \in DOMAIN yielded[k].idx_train :
                    yielded[k].idx_train[j] >= 0 /\ yielded[k].idx_train[j] < X_len - cv.offset
              /\ \A j \in DOMAIN yielded[k].idx_test :
                    yielded[k].idx_test[j] >= 0 /\ yielded[k].idx_test[j] < X_len - cv.offset
        /\ split_pc = "done" =>
              LET last == yielded[Len(yielded)].idx_test
              IN  last[Len(last)] = X_len - cv.offset - 1

\* a validation split with reserved rows yielded two folds
C16_Witness ==
    /\ cv # NoObject /\ split_pc = "done"
    /\ cv.offset >= 2
    /\ Len(yielded) = 2
    /\ X_len > cv.offset + cv.folds * cv.fold_size


\* ------------------------------------------------------------------------
\* Lookback window (price_data.py:87-90, 292-305)
\* ------------------------------------------------------------------------
LookbackReturned == fn_out # NoObject /\ fn_in.op = "get_lookback_window"
\* bars of the base timeframe in one bar of tf
BaseBarsIn(tf) == BucketHours(tf) \div BucketHours(fn_in.timeframe)

\* C17: get_lookback_window returns the maximum over the view's timeframes of
\* Timeframe.convert(base, tf) * (max_window(tf) + adjustment(tf)), plus 1,
\* the adjustment being 1 for a non-base timeframe with max_window > 0 and 0
\* otherwise; hourly 60 with daily 3 gives 97, and weekly 1 on top gives 337.
C17_LookbackWindow ==
    LookbackReturned =>
        LET need(tf) == BaseBarsIn(tf) * (fn_in.max_window[tf] +
                            (IF tf # fn_in.timeframe /\ fn_in.max_window[tf] > 0 THEN 1 ELSE 0))
            tfs == DOMAIN fn_in.max_window
        IN  /\ fn_out.raised = ""
            /\ \A tf \in tfs : fn_out.value >= need(tf) + 1
            /\ \E tf \in tfs : fn_out.value = need(tf) + 1
            /\ (fn_in.timeframe = HOURLY /\ tfs = {HOURLY, DAILY, WEEKLY}
                  /\ fn_in.max_window[HOURLY] = 60 /\ fn_in.max_window[DAILY] = 3) =>
                     /\ fn_in.max_window[WEEKLY] = 0 => fn_out.value = 97
                     /\ fn_in.max_window[WEEKLY] = 1 => fn_out.value = 337

\* the lookback of hourly 60, daily 3 and weekly 1 was returned
C17_Witness ==
    /\ LookbackReturned
    /\ fn_in.timeframe = HOURLY /\ DOMAIN fn_in.max_window = {HOURLY, DAILY, WEEKLY}
    /\ fn_in.max_window[HOURLY] = 60 /\ fn_in.max_window[DAILY] = 3 /\ fn_in.max_window[WEEKLY] = 1
    /\ fn_out.value = 337


\* ------------------------------------------------------------------------
\* The return of a trade (backtest.py:117-157)
\* ------------------------------------------------------------------------
\* the return the statement gives for a trade: the leveraged relative price
\* move minus the leveraged fees
StatedReturn(entry_price, exit_price, trading_type, leverage, fees_per_trade) ==
    LET move == IF trading_type = LONG THEN exit_price - entry_price ELSE entry_price - exit_price
    IN  RatAdd(Rat(move * leverage, entry_price), Rat(-(fees_per_trade * leverage), 1000))

BarsAtOrBeyond ==
    {r.idx : r \in {q \in ScanAfter :
        \/ ScanTpPrice # None /\ (IF scan_type = LONG THEN q.High >= ScanTpPrice ELSE q.Low <= ScanTpPrice)
        \/ ScanSlPrice # None /\ (IF scan_type = LONG THEN q.Low <= ScanSlPrice ELSE q.High >= ScanSlPrice)}}
BarsBeyond ==
    {r.idx : r \in {q \in ScanAfter :
        \/ ScanTpPrice # None /\ (IF scan_type = LONG THEN q.High > ScanTpPrice ELSE q.Low < ScanTpPrice)
        \/ ScanSlPrice # None /\ (IF scan_type = LONG THEN q.Low < ScanSlPrice ELSE q.High > ScanSlPrice)}}

\* C19 as stated: a bar touches when High >= TP (long) or Low <= TP (short),
\* Low <= SL (long) or High >= SL (short), so the first bar after the entry
\* whose extreme equals the TP or SL price exactly closes the trade.
C19_Original ==
    scan_pc = "done" =>
        IF BarsAtOrBeyond \cup ScanExitBars = {} THEN exit_signal = NoObject
        ELSE exit_signal # NoObject /\ exit_signal.idx = Min(BarsAtOrBeyond \cup ScanExitBars)

\* C19 amended: a bar touches when High > TP (long) or Low < TP (short),
\* Low < SL (long) or High > SL (short): the trade is closed by the first bar
\* whose extreme lies strictly beyond the TP or SL price (or that carries the
\* exit signal), and a bar whose extreme equals the price exactly does not
\* close it.
C19_TouchIsStrict ==
    scan_pc = "done" =>
        /\ IF BarsBeyond \cup ScanExitBars = {} THEN exit_signal = NoObject
           ELSE exit_signal # NoObject /\ exit_signal.idx = Min(BarsBeyond \cup ScanExitBars)
        /\ \A at \in BarsAtOrBeyond \ (BarsBeyond \cup ScanExitBars) :
              exit_signal = NoObject \/ exit_signal.idx # at

\* the High of the first bar after the entry equals the TP price of a long
\* trade exactly, and the trade is closed by a later bar beyond the price
C19_Witness ==
    /\ scan_pc = "done" /\ scan_type = LONG /\ ScanTpPrice # None
    /\ Len(scan_df) >= 3
    /\ scan_df[2].High = ScanTpPrice /\ ~scan_df[2].Exit
    /\ 2 \notin BarsBeyond
    /\ exit_signal # NoObject /\ exit_signal.idx = 3 /\ exit_signal.exit_price = ScanTpPrice


\* ------------------------------------------------------------------------
\* Entry signals without an exit (backtest.py:85-97, 130-142)
\* ------------------------------------------------------------------------
\* the rows after the entry signal under evaluation that would close its trade
BtClosingBars ==
    LET close == RowAt(bt_df, BtIdx).Close
        tp_price == get_tp_price(bt_strategy.tp, close, bt_strategy.trading_type)
        sl_price == get_sl_price(bt_strategy.sl, close, bt_strategy.trading_type)
    IN  {k \in DOMAIN bt_df :
            /\ bt_df[k].idx > BtIdx
            /\ \/ bt_df[k].Exit
               \/ tp_price # None /\ (IF bt_strategy.trading_type = LONG THEN bt_df[k].High > tp_price
                                       ELSE bt_df[k].Low < tp_price)
               \/ sl_price # None /\ (IF bt_strategy.trading_type = LONG THEN bt_df[k].Low < sl_price
                                       ELSE bt_df[k].High > sl_price)}

\* the loop evaluates an entry signal after the last exit for which nothing closes the trade
UnresolvedSignalStep ==
    BtRunning /\ BtIdx > last_exit_idx /\ BtClosingBars = {} /\ bt_pos' # bt_pos

\* C20: an entry signal with no SL/TP touch and no exit signal in the rest of
\* the data is discarded without error: it adds no return, leaves the
\* last-exit marker where it was and the loop goes on to the next entry
\* signal; the number of returns never exceeds the number of entry signals
\* evaluated, and the result is only built after every signal was evaluated.
C20_UnresolvedSignalDiscarded ==
    /\ [][UnresolvedSignalStep =>
            /\ performance_detailed' = performance_detailed
            /\ trades' = trades
            /\ last_exit_idx' = last_exit_idx
            /\ bt_pos' = bt_pos + 1
            /\ bt_result' = NoObject]_vars
    /\ [](bt_strategy # NoObject =>
            /\ Len(performance_detailed) <= bt_pos - 1
            /\ Len(performance_detailed) <= Len(EntryIndex(bt_df))
            /\ bt_result # NoObject =>
                  /\ bt_pos = Len(EntryIndex(bt_df)) + 1
                  /\ Len(bt_result.performance_detailed) <= Len(EntryIndex(bt_df)))

\* a backtest finished with one trade although three entry signals were
\* evaluated, the last of them after the trade's exit
C20_Witness ==
    /\ bt_result # NoObject
    /\ Len(EntryIndex(bt_df)) = 3
    /\ Len(bt_result.performance_detailed) = 1
    /\ Last(EntryIndex(bt_df)) > last_exit_idx

\* ------------------------------------------------------------------------
\* C21: the folds of cross_validate_strategy
\* ------------------------------------------------------------------------
\* the index values of the rows at the positions idx of the whole frame
IndexAt(idx) == {xv_X[idx[k] + 1].idx : k \in DOMAIN idx}

\* C21: cross_validate_strategy takes the folds in chronological order; while a fold is
\* evaluated, the frame under evaluation is the fold's test window, a strategy with a
\* classifier is fitted on exactly the fold's training window, every row of which lies
\* before every row of the test window, and every trade recorded has its entry and its
\* exit in the test window of the fold.
C21_RefitOnTrainThenEvaluateOnTest ==
    /\ \A j \in 1..(Len(yielded) - 1) :
          \A a \in IndexAt(yielded[j].idx_test), b \in IndexAt(yielded[j + 1].idx_test) : a < b
    /\ xv_pc = "evaluate" =>
          LET fold == Last(yielded)
              test == IndexAt(fold.idx_test)
          IN  /\ {bt_df[k].idx : k \in DOMAIN bt_df} = test
              /\ bt_strategy.classifier =>
                    /\ xv_fitted # <<>>
                    /\ {xv_fitted[k] : k \in DOMAIN xv_fitted} = IndexAt(fold.idx_train)
                    /\ \A k \in DOMAIN xv_fitted : \A t \in test : xv_fitted[k] < t
              /\ \A k \in DOMAIN trades : trades[k].entry \in test /\ trades[k].exit \in test

\* a fold of two rows is under evaluation with a trade recorded, by a strategy whose
\* classifier was fitted on fewer rows than the view has
C21_Witness ==
    /\ xv_pc = "evaluate"
    /\ bt_strategy.classifier
    /\ trades # <<>>
    /\ Len(xv_fitted) < Len(xv_X)
    /\ Len(Last(yielded).idx_test) = 2

\* ------------------------------------------------------------------------
\* C22: what the merged columns hold
\* ------------------------------------------------------------------------
\* the bars of the view's series of tf that have closed at or before timestamp r
ClosedBars(tf, r) ==
    {j \in DOMAIN price_data.data[tf] : price_data.data[tf][j].idx + BucketHours(tf) <= r}

\* C22: in the merged frame, every base row r at or after the first merge point of a
\* higher timeframe holds, in the columns of that timeframe, the values of the most
\* recent bar of that timeframe that had closed at or before r (greatest start s with
\* s + bucket duration <= r).
C22_MostRecentClosedBar ==
    merged # NoObject =>
        \A k \in DOMAIN merged.df :
            \A tf \in DOMAIN merged.df[k].tf :
                LET r == merged.df[k].own.idx
                    close == price_data.data[price_data.timeframe][k].Close
                    shown == merged.df[k].tf[tf]
                IN  ClosedBars(tf, r) # {} =>
                        LET s == Max({price_data.data[tf][j].idx : j \in ClosedBars(tf, r)})
                        IN  /\ shown # NoObject
                            /\ shown = BucketColumns(tf, s, close, merged.convert)

\* a row of a merged frame lies after the close of the second bar of a higher timeframe
C22_Witness ==
    /\ merged # NoObject
    /\ \E k \in DOMAIN merged.df :
          \E tf \in DOMAIN merged.df[k].tf :
             /\ Cardinality(ClosedBars(tf, merged.df[k].own.idx)) >= 2
             /\ merged.df[k].tf[tf] # NoObject

\* ------------------------------------------------------------------------
\* C23: the bars of an aggregated series
\* ------------------------------------------------------------------------
\* the bars of the aggregated series the view holds, as <<timeframe, position>>
AggregatedBars ==
    IF pd_pc = "built"
    THEN {<<tf, j>> : tf \in price_data.aggregations, j \in 1..MaxBaseRows + 1} \cap
         {b \in Timeframe \X (1..MaxBaseRows + 1) : b[2] \in DOMAIN price_data.data[b[1]]}
    ELSE {}

\* the bar is Open first, High max, Low min, Close last, Volume sum of the base bars of
\* the raw frame that open inside its bucket
AggregatesItsBucket(tf, bar) ==
    LET rows == BucketRows(tf, bar.idx)
    IN  /\ bar.idx % BucketHours(tf) = 0
        /\ rows # <<>>
        /\ bar.Open = rows[1].Open
        /\ bar.Close = rows[Len(rows)].Close
        /\ \A k \in DOMAIN rows : bar.High >= rows[k].High /\ bar.Low <= rows[k].Low
        /\ \E k \in DOMAIN rows : bar.High = rows[k].High
        /\ \E k \in DOMAIN rows : bar.Low = rows[k].Low
        /\ bar.Volume = SeqSum([k \in DOMAIN rows |-> rows[k].Volume])

\* the base bars of the raw frame cover the whole bucket of the bar
CompleteBucket(tf, bar) ==
    Len(BucketRows(tf, bar.idx)) * BucketHours(raw.timeframe) = BucketHours(tf)

\* C23 as claimed: every bar of an aggregated series of the view is built from a
\* complete bucket of base bars; a bucket the data covers only partly, at the start or
\* at the end, never appears.
C23_Original ==
    \A b \in AggregatedBars :
        LET bar == price_data.data[b[1]][b[2]]
        IN  AggregatesItsBucket(b[1], bar) /\ CompleteBucket(b[1], bar)

\* C23 amended: every bar of an aggregated series aggregates the base bars of its
\* bucket; no bucket begins before the first base bar (a bucket the data begins inside
\* is dropped); in a frame without missing bars every bar but the last of its series is
\* built from a complete bucket, and the last one from the bars the data has of it.
C23_LeadingPartialBucketDropped ==
    \A b \in AggregatedBars :
        LET bar == price_data.data[b[1]][b[2]]
        IN  /\ AggregatesItsBucket(b[1], bar)
            /\ bar.idx >= raw.price_data_df[1].idx
            /\ b[2] < Len(price_data.data[b[1]]) => CompleteBucket(b[1], bar)

\* a view built from a frame that begins and ends inside a bucket: the series starts
\* with a complete bucket and ends with a partly covered one
C23_Witness ==
    /\ pd_pc = "built"
    /\ \E tf \in price_data.aggregations :
          LET series == price_data.data[tf]
          IN  /\ raw.price_data_df[1].idx % BucketHours(tf) # 0
              /\ Len(series) >= 2
              /\ CompleteBucket(tf, series[1])
              /\ ~CompleteBucket(tf, series[Len(series)])

\* ------------------------------------------------------------------------
\* C24: the common start of the series of a view
\* ------------------------------------------------------------------------
\* the start of the earliest bucket of tf that begins at or after the first base bar of
\* the raw frame and holds a base bar: the earliest bar the constructor retains
EarliestRetained(tf) ==
    Min({s \in BucketStarts(tf, Last(raw.price_data_df).idx) :
            s >= raw.price_data_df[1].idx /\ BucketRows(tf, s) # <<>>})

\* C24: in a view constructed with at least one aggregation, the base series and
\* every aggregated series start at the same timestamp, the latest of the aggregated
\* series' earliest retained bars, and no aggregated bar begins before the first
\* timestamp of the base series.
C24_SeriesStartTogether ==
    (pd_pc = "built" /\ price_data.aggregations # {}) =>
        LET common == Max({EarliestRetained(tf) : tf \in price_data.aggregations})
            base == price_data.data[price_data.timeframe]
        IN  /\ \A tf \in DOMAIN price_data.data :
                  /\ price_data.data[tf] # <<>>
                  /\ price_data.data[tf][1].idx = common
            /\ \A b \in AggregatedBars : price_data.data[b[1]][b[2]].idx >= base[1].idx

\* ------------------------------------------------------------------------
\* The bot's job
\* ------------------------------------------------------------------------
\* C25: in a run of the bot's job, with the exchange closing positions by TP/SL at
\* any moment between the steps, the entry step never calls add_exit_strategy for a
\* context that still has a registered exit strategy, so that the 'Exit strategy
\* conflict' RuntimeError is never raised.
C25_NoExitStrategyConflict ==
    outcome.op = "_apply_entry_strategies_for_price_data"
        => /\ ~(outcome.args.signal /\ outcome.args.registered)
           /\ outcome.result # Raised("RuntimeError")

\* C27: after the exit step of a context with a registered exit strategy: when the
\* exchange reported no active position the exit strategy is removed; when it
\* reported one and the exit signal fired, the exit strategy is removed exactly
\* when the closing order came back ACCEPTED; when it reported one and the exit
\* signal did not fire, the exit strategy stays registered.
C27_ExitStepOutcome ==
    (outcome.op = "_apply_exit_strategies_for_price_data" /\ outcome.args.registered)
        => LET still == outcome.view.context \in DOMAIN sm.exit_strategies
           IN  /\ outcome.args.positions = "none" => ~still
               /\ (outcome.args.positions = "active" /\ outcome.args.signal)
                      => (still <=> outcome.args.status # "ACCEPTED")
               /\ (outcome.args.positions = "active" /\ ~outcome.args.signal) => still

C27_Witness ==
    /\ outcome.op = "_apply_exit_strategies_for_price_data"
    /\ outcome.args.registered
    /\ outcome.args.positions = "active"
    /\ outcome.args.signal
    /\ outcome.args.status = "FAILED_AT_REQUEST"
    /\ outcome.view.context \in DOMAIN sm.exit_strategies
\* ------------------------------------------------------------------------
\* The rows apply_entry_strategy reads
\* ------------------------------------------------------------------------
RowsCalled == outcome.op = "apply_entry_strategy" /\ outcome.view = NoObject
LatestRow == outcome.args[Len(outcome.args)]

\* C26: apply_entry_strategy returns an order exactly when the entry signal is true
\* on the latest row of the view, and the order's planned entry price is the Close
\* of that same row; otherwise it returns None.
C26_SignalAndPriceOfLatestRow ==
    (RowsCalled /\ outcome.result.raised = "")
        => /\ (outcome.result.value # NoObject) <=> LatestRow.Enter
           /\ outcome.result.value # NoObject
                  => outcome.result.value.entering_price_planned = LatestRow.Close

\* the same, for the views whose latest row has no NaN
C26_OnCompleteLatestRow ==
    (RowsCalled /\ outcome.result.raised = "" /\ ~LatestRow.nan)
        => /\ (outcome.result.value # NoObject) <=> LatestRow.Enter
           /\ outcome.result.value # NoObject
                  => outcome.result.value.entering_price_planned = LatestRow.Close
\* ------------------------------------------------------------------------
\* The update of a view's rows
\* ------------------------------------------------------------------------
UpdateCalled == fn_in # NoObject /\ fn_in.op = "_update_price_data" /\ fn_out # NoObject
TimestampsOf(df) == {df[k].idx : k \in DOMAIN df}
CurrentFinal == ExceptDate(fn_in.pd_current, fn_in.current_time)
LastHistorical == Max(TimestampsOf(fn_in.price_data_df))

\* what C28 states of a call
UpdateMerges ==
    /\ fn_out.raised = ""
           => /\ \A k \in 1..(Len(fn_out.value) - 1) : fn_out.value[k].idx < fn_out.value[k + 1].idx
              /\ TimestampsOf(fn_in.price_data_df) \subseteq TimestampsOf(fn_out.value)
              /\ \A k \in DOMAIN fn_out.value :
                     (fn_out.value[k].idx \in TimestampsOf(fn_in.price_data_df)
                          /\ fn_out.value[k].idx # LastHistorical)
                         => fn_out.value[k].version = "historical"
    /\ (CurrentFinal # <<>> /\ Min(TimestampsOf(CurrentFinal)) > LastHistorical)
           => fn_out = Raised("DataProviderException")

\* C28: _update_price_data returns rows with strictly increasing timestamps that
\* keep every timestamp of the history, only the last historical row taking the
\* current values, and raises DataProviderException when the current data starts
\* after the last historical row.
C28_UpdateKeepsHistory == UpdateCalled => UpdateMerges

\* the same, for the calls whose current data holds the last historical timestamp
C28_WhenCurrentHoldsLastHistorical ==
    (UpdateCalled /\ LastHistorical \in TimestampsOf(CurrentFinal)) => UpdateMerges
\* ------------------------------------------------------------------------
\* The manager's active lists
\* ------------------------------------------------------------------------
RegisteredFor(name) ==
    {c \in DOMAIN sm.all_strategies :
        \E k \in DOMAIN sm.all_strategies[c] : sm.all_strategies[c][k] = name}

ActiveAreBound ==
    \A c \in DOMAIN sm.current_strategies : \A k \in DOMAIN sm.current_strategies[c] :
        LET strategy == strategies[sm.current_strategies[c][k]]
        IN  /\ strategy.init_for_context = c
            /\ strategy.strategy_performance # NoObject
            /\ c \in RegisteredFor(strategy.name)

\* C29: after any sequence of add_strategy and reevaluate_all_strategies calls every
\* strategy of current_strategies[c] is bound to the context c, carries a
\* performance record and is in all_strategies[c].
C29_ActiveStrategiesBound == sm # NoObject => ActiveAreBound

\* the same, while no Strategy object was added for two contexts
C29_WhenAddedForOneContext ==
    (sm # NoObject /\ \A name \in DOMAIN strategies : Cardinality(RegisteredFor(name)) <= 1)
        => ActiveAreBound
\* ------------------------------------------------------------------------
\* Acceptance of a strategy without trades
\* ------------------------------------------------------------------------
AddedUnderSettings == outcome.op = "add_strategy" /\ DOMAIN outcome.args = {"performance", "settings"}
ZeroTradesAdded == AddedUnderSettings /\ outcome.args.performance \in ZeroTradePerformances

\* C30: for a strategy whose evaluation recorded zero trades the win-rate criterion
\* never rejects, whatever threshold_strategy_winrate is: the strategy is accepted,
\* and appended to the active list of its context, exactly when
\* threshold_strategy_pps <= 0 (its PPS is 0 and none of its folds is negative).
C30_ZeroTradesAcceptedByPpsAlone ==
    ZeroTradesAdded
        => /\ outcome.result.value <=> outcome.args.settings.threshold_strategy_pps <= 0
           /\ outcome.result.value
                  => Last(sm.current_strategies[outcome.view.context]) = outcome.strategy

C30_Witness ==
    /\ ZeroTradesAdded
    /\ outcome.args.settings.threshold_strategy_winrate = 101
    /\ outcome.args.settings.threshold_strategy_pps = 0
    /\ outcome.args.settings.allowed_negative_folds = 0
    /\ Len(outcome.args.performance.performance_detailed) >= 1
    /\ outcome.result = Returned(TRUE)
====
